---- MODULE Spec2Model ----
(***************************************************************************)
(* Model of the feasibility core (src/feasibility.py) and of the helpers   *)
(* of src/app_modern.py that feed it.                                      *)
(*                                                                         *)
(* Python floats are IEEE-754 binary64 numbers.  They are modelled here    *)
(* bit for bit: a finite float is sign * m * 2^e with m an odd natural     *)
(* number of at most 53 bits, and every arithmetic operation rounds its    *)
(* exact result to the nearest such number, ties to even.  Because the     *)
(* integers of the model checker are 32 bits wide, m is kept as a          *)
(* little-endian sequence of 15-bit limbs.  Infinities, NaN, subnormals    *)
(* and the sign of zero are outside the model: the inputs are bounded so   *)
(* that no operation overflows or underflows.                              *)
(***************************************************************************)
EXTENDS Integers, Sequences, FiniteSets, TLC

(***************************************************************************)
(* Natural numbers of arbitrary size: little-endian limbs, no leading zero *)
(* limb, zero is the empty sequence.                                       *)
(***************************************************************************)
Base == 32768
LimbBits == 15
MantissaBits == 53

Max(a, b) == IF a >= b THEN a ELSE b
Min(a, b) == IF a <= b THEN a ELSE b

RECURSIVE Pow2(_)
Pow2(n) == IF n = 0 THEN 1 ELSE 2 * Pow2(n - 1)

RECURSIVE BitLenInt(_)
BitLenInt(n) == IF n = 0 THEN 0 ELSE 1 + BitLenInt(n \div 2)

RECURSIVE BNorm(_)
BNorm(a) ==
  IF a = <<>> THEN <<>>
  ELSE IF a[Len(a)] = 0 THEN BNorm(SubSeq(a, 1, Len(a) - 1)) ELSE a

BLimb(a, i) == IF i <= Len(a) THEN a[i] ELSE 0

RECURSIVE BFromInt(_)
BFromInt(n) == IF n = 0 THEN <<>> ELSE <<n % Base>> \o BFromInt(n \div Base)

RECURSIVE BToInt(_)
BToInt(a) == IF a = <<>> THEN 0 ELSE a[1] + Base * BToInt(Tail(a))

RECURSIVE BAddFrom(_, _, _, _)
BAddFrom(a, b, i, c) ==
  IF i > Len(a) /\ i > Len(b)
  THEN (IF c = 0 THEN <<>> ELSE <<c>>)
  ELSE LET s == BLimb(a, i) + BLimb(b, i) + c
       IN <<s % Base>> \o BAddFrom(a, b, i + 1, s \div Base)

BAdd(a, b) == BAddFrom(a, b, 1, 0)

RECURSIVE BSubFrom(_, _, _, _)
BSubFrom(a, b, i, c) ==
  IF i > Len(a) THEN <<>>
  ELSE LET d == a[i] - BLimb(b, i) - c
       IN IF d < 0 THEN <<d + Base>> \o BSubFrom(a, b, i + 1, 1)
                   ELSE <<d>> \o BSubFrom(a, b, i + 1, 0)

\* a - b for a >= b
BSub(a, b) == BNorm(BSubFrom(a, b, 1, 0))

RECURSIVE BCmpFrom(_, _, _)
BCmpFrom(a, b, i) ==
  IF i = 0 THEN 0
  ELSE IF a[i] < b[i] THEN -1
  ELSE IF a[i] > b[i] THEN 1
  ELSE BCmpFrom(a, b, i - 1)

\* -1, 0 or 1 as a < b, a = b, a > b
BCmp(a, b) ==
  IF Len(a) < Len(b) THEN -1
  ELSE IF Len(a) > Len(b) THEN 1
  ELSE BCmpFrom(a, b, Len(a))

RECURSIVE BMulSmallFrom(_, _, _, _)
BMulSmallFrom(a, k, i, c) ==
  IF i > Len(a) THEN (IF c = 0 THEN <<>> ELSE <<c>>)
  ELSE LET p == a[i] * k + c
       IN <<p % Base>> \o BMulSmallFrom(a, k, i + 1, p \div Base)

\* a * k for 0 <= k < Base
BMulSmall(a, k) == IF k = 0 THEN <<>> ELSE BMulSmallFrom(a, k, 1, 0)

RECURSIVE Zeros(_)
Zeros(n) == IF n = 0 THEN <<>> ELSE <<0>> \o Zeros(n - 1)

BShiftLimbs(a, n) == IF a = <<>> THEN <<>> ELSE Zeros(n) \o a

RECURSIVE BMulFrom(_, _, _)
BMulFrom(a, b, i) ==
  IF i > Len(b) THEN <<>>
  ELSE BAdd(BShiftLimbs(BMulSmall(a, b[i]), i - 1), BMulFrom(a, b, i + 1))

BMul(a, b) == BMulFrom(a, b, 1)

\* a * 2^n
BShl(a, n) == BShiftLimbs(BMulSmall(a, Pow2(n % LimbBits)), n \div LimbBits)

RECURSIVE BDivSmallFrom(_, _, _, _)
BDivSmallFrom(a, k, i, r) ==
  IF i = 0 THEN <<>>
  ELSE LET cur == r * Base + a[i]
       IN BDivSmallFrom(a, k, i - 1, cur % k) \o <<cur \div k>>

\* floor(a / k) for 0 < k <= Base
BDivSmall(a, k) == BNorm(BDivSmallFrom(a, k, Len(a), 0))

\* floor(a / 2^n)
BShr(a, n) ==
  LET w == n \div LimbBits
  IN IF w >= Len(a) THEN <<>>
     ELSE BDivSmall(SubSeq(a, w + 1, Len(a)), Pow2(n % LimbBits))

BBitLen(a) ==
  IF a = <<>> THEN 0 ELSE LimbBits * (Len(a) - 1) + BitLenInt(a[Len(a)])

\* bit n (counted from 0) of a
BBit(a, n) ==
  LET w == n \div LimbBits + 1
  IN IF w > Len(a) THEN 0 ELSE (a[w] \div Pow2(n % LimbBits)) % 2

RECURSIVE TzInt(_)
TzInt(n) == IF n % 2 = 1 THEN 0 ELSE 1 + TzInt(n \div 2)

RECURSIVE BTzFrom(_, _)
BTzFrom(a, i) == IF a[i] = 0 THEN LimbBits + BTzFrom(a, i + 1) ELSE TzInt(a[i])

\* number of trailing zero bits of a > 0
BTz(a) == BTzFrom(a, 1)

\* largest d with b * d <= cur, counting down from an estimate est >= d
RECURSIVE BDigit(_, _, _)
BDigit(cur, b, est) ==
  IF BCmp(BMulSmall(b, est), cur) <= 0 THEN est ELSE BDigit(cur, b, est - 1)

\* schoolbook long division by limbs of a[1..i] below the running remainder r;
\* the top limb of b is at least Base / 2, so the estimate is at most 2 too big
RECURSIVE BDivModFrom(_, _, _, _)
BDivModFrom(a, b, i, r) ==
  IF i = 0 THEN <<<<>>, r>>
  ELSE LET cur == BNorm(<<a[i]>> \o r)
           n == Len(b)
           est == Min(Base - 1, (BLimb(cur, n + 1) * Base + BLimb(cur, n)) \div b[n])
           d == BDigit(cur, b, est)
           rest == BDivModFrom(a, b, i - 1, BSub(cur, BMulSmall(b, d)))
       IN <<rest[1] \o <<d>>, rest[2]>>

\* quotient and remainder of a / b, b > 0
BDivMod(a, b) ==
  LET sh == LimbBits - BitLenInt(b[Len(b)])
      a2 == BShl(a, sh)
      qr == BDivModFrom(a2, BShl(b, sh), Len(a2), <<>>)
  IN <<BNorm(qr[1]), BShr(qr[2], sh)>>

(***************************************************************************)
(* Python float: sign s in {-1, 0, 1}, odd mantissa m (limbs), exponent e. *)
(***************************************************************************)
FZero == [s |-> 0, m |-> <<>>, e |-> 0]

\* the float s * n * 2^e for n of at most 53 significant bits
FCanon(s, n, e) ==
  IF n = <<>> THEN FZero
  ELSE LET t == BTz(n) IN [s |-> s, m |-> BShr(n, t), e |-> e + t]

\* s * (n + f) * 2^e rounded to nearest, ties to even; sticky says 0 < f < 1
\* (sticky only with more than 53 bits in n), otherwise f = 0
FRound(s, n, e, sticky) ==
  LET len == BBitLen(n)
  IN IF len <= MantissaBits THEN FCanon(s, n, e)
     ELSE LET sh == len - MantissaBits
              q == BShr(n, sh)
              half == BBit(n, sh - 1) = 1
              restZero == (~sticky) /\ BTz(n) >= sh - 1
              up == half /\ ((~restZero) \/ q[1] % 2 = 1)
          IN FCanon(s, IF up THEN BAdd(q, <<1>>) ELSE q, e + sh)

\* float(n) for a Python int n
FromInt(n) == FCanon(IF n < 0 THEN -1 ELSE 1, BFromInt(IF n < 0 THEN -n ELSE n), 0)

FNeg(x) == [s |-> -x.s, m |-> x.m, e |-> x.e]

FAbs(x) == [s |-> x.s * x.s, m |-> x.m, e |-> x.e]

\* x * y
FMul(x, y) ==
  IF x.s = 0 \/ y.s = 0 THEN FZero
  ELSE FRound(x.s * y.s, BMul(x.m, y.m), x.e + y.e, FALSE)

\* x / y for y # 0
FDiv(x, y) ==
  IF x.s = 0 THEN FZero
  ELSE LET k == MantissaBits + 2 + BBitLen(y.m) - BBitLen(x.m)
           qr == BDivMod(BShl(x.m, k), y.m)
       IN FRound(x.s * y.s, qr[1], x.e - k - y.e, qr[2] # <<>>)

\* x + y
FAdd(x, y) ==
  IF x.s = 0 THEN y
  ELSE IF y.s = 0 THEN x
  ELSE LET e0 == Min(x.e, y.e)
           a == BShl(x.m, x.e - e0)
           b == BShl(y.m, y.e - e0)
           c == BCmp(a, b)
       IN IF x.s = y.s THEN FRound(x.s, BAdd(a, b), e0, FALSE)
          ELSE IF c = 0 THEN FZero
          ELSE IF c > 0 THEN FRound(x.s, BSub(a, b), e0, FALSE)
          ELSE FRound(y.s, BSub(b, a), e0, FALSE)

\* x - y
FSub(x, y) == FAdd(x, FNeg(y))

\* -1, 0 or 1 as |x| < |y|, |x| = |y|, |x| > |y|, for x and y non-zero
FCmpMag(x, y) ==
  LET tx == BBitLen(x.m) + x.e
      ty == BBitLen(y.m) + y.e
      e0 == Min(x.e, y.e)
  IN IF tx < ty THEN -1
     ELSE IF tx > ty THEN 1
     ELSE BCmp(BShl(x.m, x.e - e0), BShl(y.m, y.e - e0))

\* -1, 0 or 1 as x < y, x = y, x > y
FCmp(x, y) ==
  IF x.s # y.s THEN (IF x.s < y.s THEN -1 ELSE 1)
  ELSE IF x.s = 0 THEN 0
  ELSE x.s * FCmpMag(x, y)

FLt(x, y) == FCmp(x, y) < 0
FLe(x, y) == FCmp(x, y) <= 0
FGt(x, y) == FCmp(x, y) > 0
FGe(x, y) == FCmp(x, y) >= 0

\* math.floor(x) for x > 0, as an integer
FFloor(x) ==
  IF x.e >= 0 THEN BToInt(BShl(x.m, x.e)) ELSE BToInt(BShr(x.m, -x.e))

\* the float a decimal literal n/d denotes (d a power of ten)
Dec(n, d) == FDiv(FromInt(n), FromInt(d))

\* math.isclose(a, b) with its default rel_tol = 1e-09 and abs_tol = 0.0
RelTol == Dec(1, 1000000000)

IsClose(a, b) ==
  a = b \/ FLe(FAbs(FSub(a, b)),
               FMul(RelTol, IF FGe(FAbs(a), FAbs(b)) THEN FAbs(a) ELSE FAbs(b)))

(***************************************************************************)
(* Python values held by the input and output records.  A record is a      *)
(* function on all keys; a key the dict does not have holds Absent.        *)
(***************************************************************************)
Absent == [t |-> "absent", s |-> "", v |-> FZero]
None == [t |-> "NoneType", s |-> "", v |-> FZero]
Str(x) == [t |-> "str", s |-> x, v |-> FZero]
Num(f) == [t |-> "float", s |-> "", v |-> f]

Keys ==
  {"arsa_alani_m2", "emsal", "satilabilir_katsayi", "otopark_tipi",
   "otopark_katsayi", "konut_sinifi", "insaat_maliyet_usd_m2",
   "arsa_toplam_degeri_usd", "ortalama_konut_m2", "satis_birim_fiyat_usd_m2"}

\* k in inputs
Has(inputs, k) == inputs[k].t # "absent"

\* x in [None, ""]
IsBlank(x) == x.t = "NoneType" \/ (x.t = "str" /\ x.s = "")

\* inputs.get(k, default)
Get(inputs, k, default) == IF Has(inputs, k) THEN inputs[k] ELSE default

\* the exception float(x) raises, "" when it returns
FloatErr(x) ==
  IF x.t = "float" THEN ""
  ELSE IF x.t = "NoneType" THEN "TypeError"
  ELSE "ValueError"

\* DEFAULTS with the two parking coefficients exchanged
DEFAULTS_Swapped ==
  [satilabilir_katsayi |-> Dec(125, 100),
   otopark_katsayi |-> [ACIK |-> Dec(160, 100), KAPALI |-> Dec(120, 100)],
   insaat_maliyet_usd_m2 |-> [ALT |-> FromInt(700), ORTA |-> FromInt(900),
                              YUKSEK |-> FromInt(1100)],
   ortalama_konut_m2 |-> FromInt(120)]

DEFAULTS ==
  [satilabilir_katsayi |-> Dec(125, 100),
   otopark_katsayi |-> [ACIK |-> Dec(120, 100), KAPALI |-> Dec(160, 100)],
   insaat_maliyet_usd_m2 |-> [ALT |-> FromInt(700), ORTA |-> FromInt(900),
                              YUKSEK |-> FromInt(1100)],
   ortalama_konut_m2 |-> FromInt(120)]

\* the exception table[x] raises, "" when the key is there
LookupErr(table, x) ==
  IF x.t = "str" /\ x.s \in DOMAIN table THEN "" ELSE "KeyError"

required ==
  <<"arsa_alani_m2", "emsal", "otopark_tipi", "konut_sinifi", "arsa_toplam_degeri_usd">>

Raise(exc, msg) == [kind |-> "raise", exc |-> exc, msg |-> msg]
Return(outputs, warnings) ==
  [kind |-> "return", outputs |-> outputs, warnings |-> warnings]

\* the first non-empty entry of a sequence of exception names, "" if none
RECURSIVE FirstErr(_)
FirstErr(errs) ==
  IF errs = <<>> THEN ""
  ELSE IF errs[1] # "" THEN errs[1] ELSE FirstErr(Tail(errs))

\* the sequence without its empty strings
RECURSIVE Compact(_)
Compact(ws) ==
  IF ws = <<>> THEN <<>>
  ELSE IF ws[1] = "" THEN Compact(Tail(ws)) ELSE <<ws[1]>> \o Compact(Tail(ws))

\* target margins 0.10, 0.30, 0.50
Margin10 == Dec(10, 100)
Margin30 == Dec(30, 100)
Margin50 == Dec(50, 100)

WEmsal == "Emsal 0 veya negatif olamaz."
WArsa == "Arsa alani 0 veya negatif olamaz."
WSatKat == "Satilabilir katsayi 0 veya negatif olamaz."
WOtoKat == "Otopark katsayisi 0 veya negatif olamaz."
WArsaDegeri == "Arsa degeri negatif olamaz."
WMaliyet == "Insaat maliyeti ($/m2) 0 veya negatif olamaz."
WEmsalYuksek == "Emsal oldukca yuksek gorunuyor; birimi/dogrulugu kontrol etmek isteyebilirsin."
WSatKatAralik == "Satilabilir katsayi alisilmadik aralikta olabilir (orn. 1.10-1.35 sik gorulur)."
WOrtKonut == "Ortalama konut m2 degeri alisilmadik olabilir."
WKur == "TL karsiliklari icin USD/TRY kuru bulunamadi (TL sutunlari bos olabilir)."
WZarar == "Proje zararda gorunuyor (brut karlilik negatif)."
WDusuk == "Brut karlilik %10'un altinda (dusuk)."
WOrta == "Brut karlilik %10-%20 araliginda (orta)."

(***************************************************************************)
(* compute_outputs (src/feasibility.py)                                    *)
(***************************************************************************)
\* MissingRequired testing "not inputs[k]": a zero counts as missing too
MissingRequired_Falsy(inputs) ==
  {i \in 1..Len(required) :
     \/ ~Has(inputs, required[i])
     \/ IsBlank(inputs[required[i]])
     \/ inputs[required[i]] = Num(FZero)}

\* positions in required of the fields that are missing, None or ""
MissingRequired(inputs) ==
  {i \in 1..Len(required) : ~Has(inputs, required[i]) \/ IsBlank(inputs[required[i]])}

\* the exceptions of the conversions of lines 38-53, in evaluation order
ConvErrors(inputs) ==
  LET satis_fiyat_raw == Get(inputs, "satis_birim_fiyat_usd_m2", None)
  IN <<FloatErr(inputs["arsa_alani_m2"]),
       FloatErr(inputs["emsal"]),
       FloatErr(Get(inputs, "satilabilir_katsayi", Num(DEFAULTS.satilabilir_katsayi))),
       LookupErr(DEFAULTS.otopark_katsayi, inputs["otopark_tipi"]),
       FloatErr(Get(inputs, "otopark_katsayi", Num(FZero))),
       LookupErr(DEFAULTS.insaat_maliyet_usd_m2, inputs["konut_sinifi"]),
       FloatErr(Get(inputs, "insaat_maliyet_usd_m2", Num(FZero))),
       FloatErr(inputs["arsa_toplam_degeri_usd"]),
       FloatErr(Get(inputs, "ortalama_konut_m2", Num(DEFAULTS.ortalama_konut_m2))),
       IF IsBlank(satis_fiyat_raw) THEN "" ELSE FloatErr(satis_fiyat_raw)>>

\* the local variables of lines 38-53, once no conversion raises
Parse(inputs) ==
  LET satis_fiyat_raw == Get(inputs, "satis_birim_fiyat_usd_m2", None)
  IN [arsa |-> inputs["arsa_alani_m2"].v,
      emsal |-> inputs["emsal"].v,
      satilabilir_katsayi |->
        Get(inputs, "satilabilir_katsayi", Num(DEFAULTS.satilabilir_katsayi)).v,
      otopark_katsayi |->
        Get(inputs, "otopark_katsayi",
            Num(DEFAULTS.otopark_katsayi[inputs["otopark_tipi"].s])).v,
      insaat_maliyet_birim |->
        Get(inputs, "insaat_maliyet_usd_m2",
            Num(DEFAULTS.insaat_maliyet_usd_m2[inputs["konut_sinifi"].s])).v,
      arsa_degeri |-> inputs["arsa_toplam_degeri_usd"].v,
      ort_konut |-> Get(inputs, "ortalama_konut_m2", Num(DEFAULTS.ortalama_konut_m2)).v,
      satis_fiyat |-> IF IsBlank(satis_fiyat_raw) THEN None ELSE satis_fiyat_raw]

\* konut_adedi counting the unit that only partly fits as well
konut_adedi_Ceil(satilabilir, ort_konut) ==
  LET konut_adedi_raw ==
        IF FGt(ort_konut, FZero) THEN FDiv(satilabilir, ort_konut) ELSE FZero
  IN IF FGt(konut_adedi_raw, FZero) THEN FFloor(konut_adedi_raw) + 1 ELSE 0

\* lines 65-66: math.floor(satilabilir / ort_konut), 0 unless both are positive
konut_adedi(satilabilir, ort_konut) ==
  LET konut_adedi_raw ==
        IF FGt(ort_konut, FZero) THEN FDiv(satilabilir, ort_konut) ELSE FZero
  IN IF FGt(konut_adedi_raw, FZero) THEN FFloor(konut_adedi_raw) ELSE 0

\* line 67
kalan_alan(satilabilir, adet, ort_konut) ==
  IF adet > 0 THEN FSub(satilabilir, FMul(FromInt(adet), ort_konut)) ELSE satilabilir

\* breakeven_usd_m2 guarding only against a zero area: a negative area divides
breakeven_usd_m2_Signed(toplam_maliyet, satilabilir) ==
  IF satilabilir.s # 0 THEN FDiv(toplam_maliyet, satilabilir) ELSE FZero

\* breakeven_usd_m2 cut down to whole dollars
breakeven_usd_m2_Floored(toplam_maliyet, satilabilir) ==
  IF FGt(satilabilir, FZero) /\ FGt(toplam_maliyet, FZero)
  THEN FromInt(FFloor(FDiv(toplam_maliyet, satilabilir)))
  ELSE FZero

\* line 70
breakeven_usd_m2(toplam_maliyet, satilabilir) ==
  IF FGt(satilabilir, FZero) THEN FDiv(toplam_maliyet, satilabilir) ELSE FZero

\* target_price_usd_m2 without the "1.0 +"
target_price_usd_m2_NoMarkup(toplam_maliyet, satilabilir, margin) ==
  LET required_revenue == FMul(toplam_maliyet, margin)
  IN IF FGt(satilabilir, FZero) THEN FDiv(required_revenue, satilabilir) ELSE FZero

\* target_price_usd_m2 taking the margin off instead of adding it
target_price_usd_m2_Discount(toplam_maliyet, satilabilir, margin) ==
  LET required_revenue == FMul(toplam_maliyet, FSub(FromInt(1), margin))
  IN IF FGt(satilabilir, FZero) THEN FDiv(required_revenue, satilabilir) ELSE FZero

\* lines 72-75
target_price_usd_m2(toplam_maliyet, satilabilir, margin) ==
  LET required_revenue == FMul(toplam_maliyet, FAdd(FromInt(1), margin))
  IN IF FGt(satilabilir, FZero) THEN FDiv(required_revenue, satilabilir) ELSE FZero

\* to_try giving 0 instead of None when there is no rate
to_try_Zero(x_usd, usd_try_rate) ==
  IF x_usd = None THEN None
  ELSE IF usd_try_rate = None THEN Num(FZero)
  ELSE Num(FMul(x_usd.v, usd_try_rate.v))

\* lines 82-87; x_usd is None or a float, usd_try_rate is None or a float
to_try(x_usd, usd_try_rate) ==
  IF x_usd = None THEN None
  ELSE IF usd_try_rate = None THEN None
  ELSE Num(FMul(x_usd.v, usd_try_rate.v))

\* RevenueMode without the "> 0" test
RevenueMode_AnyPrice(satis_fiyat) == satis_fiyat # None

\* line 131
RevenueMode(satis_fiyat) == satis_fiyat # None /\ FGt(satis_fiyat.v, FZero)

\* brut_karlilik as a percentage
brut_karlilik_Percent(kar, toplam_maliyet) ==
  IF FGt(toplam_maliyet, FZero)
  THEN FMul(FDiv(kar, toplam_maliyet), FromInt(100)) ELSE FZero

\* brut_karlilik as profit over revenue (revenue = kar + toplam_maliyet)
brut_karlilik_OverRevenue(kar, toplam_maliyet) ==
  IF FGt(toplam_maliyet, FZero) /\ FGt(FAdd(kar, toplam_maliyet), FZero)
  THEN FDiv(kar, FAdd(kar, toplam_maliyet))
  ELSE FZero

\* line 134
brut_karlilik(kar, toplam_maliyet) ==
  IF FGt(toplam_maliyet, FZero) THEN FDiv(kar, toplam_maliyet) ELSE FZero

\* ProfitWarning without the 0.10 threshold: one message below 0.20
ProfitWarning_NoModerate(brut_karlilik_orani) ==
  IF brut_karlilik_orani = None THEN ""
  ELSE LET gm == brut_karlilik_orani.v
       IN IF FLt(gm, FZero) THEN WZarar
          ELSE IF FLt(gm, Dec(20, 100)) THEN WDusuk
          ELSE ""

\* lines 172-179: the profitability flag, "" for none
ProfitWarning(brut_karlilik_orani) ==
  IF brut_karlilik_orani = None THEN ""
  ELSE LET gm == brut_karlilik_orani.v
       IN IF FLt(gm, FZero) THEN WZarar
          ELSE IF FLt(gm, Dec(10, 100)) THEN WDusuk
          ELSE IF FLt(gm, Dec(20, 100)) THEN WOrta
          ELSE ""

\* Warnings as an if/elif chain: only the first check that fires is reported
Warnings_FirstOnly(p, usd_try_rate, brut_karlilik_orani) ==
  LET all == Compact(<<
        IF FLe(p.emsal, FZero) THEN WEmsal ELSE "",
        IF FLe(p.arsa, FZero) THEN WArsa ELSE "",
        IF FLe(p.satilabilir_katsayi, FZero) THEN WSatKat ELSE "",
        IF FLe(p.otopark_katsayi, FZero) THEN WOtoKat ELSE "",
        IF FLt(p.arsa_degeri, FZero) THEN WArsaDegeri ELSE "",
        IF FLe(p.insaat_maliyet_birim, FZero) THEN WMaliyet ELSE "",
        IF FGt(p.emsal, FromInt(5)) THEN WEmsalYuksek ELSE "",
        IF FLt(p.satilabilir_katsayi, FromInt(1)) \/ FGt(p.satilabilir_katsayi, Dec(16, 10))
          THEN WSatKatAralik ELSE "",
        IF FLt(p.ort_konut, FromInt(60)) \/ FGt(p.ort_konut, FromInt(250))
          THEN WOrtKonut ELSE "",
        IF usd_try_rate = None THEN WKur ELSE "",
        ProfitWarning(brut_karlilik_orani)>>)
  IN IF all = <<>> THEN <<>> ELSE <<all[1]>>

\* lines 144-181: the warnings in the order the code appends them
Warnings(p, usd_try_rate, brut_karlilik_orani) ==
  Compact(<<
    IF FLe(p.emsal, FZero) THEN WEmsal ELSE "",
    IF FLe(p.arsa, FZero) THEN WArsa ELSE "",
    IF FLe(p.satilabilir_katsayi, FZero) THEN WSatKat ELSE "",
    IF FLe(p.otopark_katsayi, FZero) THEN WOtoKat ELSE "",
    IF FLt(p.arsa_degeri, FZero) THEN WArsaDegeri ELSE "",
    IF FLe(p.insaat_maliyet_birim, FZero) THEN WMaliyet ELSE "",
    IF FGt(p.emsal, FromInt(5)) THEN WEmsalYuksek ELSE "",
    IF FLt(p.satilabilir_katsayi, FromInt(1)) \/ FGt(p.satilabilir_katsayi, Dec(16, 10))
      THEN WSatKatAralik ELSE "",
    IF FLt(p.ort_konut, FromInt(60)) \/ FGt(p.ort_konut, FromInt(250))
      THEN WOrtKonut ELSE "",
    IF usd_try_rate = None THEN WKur ELSE "",
    ProfitWarning(brut_karlilik_orani)>>)

\* the keys of the outputs dict, lines 89-128
OutputKeys ==
  {"emsal_insaat_alani_m2", "satilabilir_alan_m2", "toplam_insaat_alani_m2",
   "insaat_maliyeti_usd", "arsa_degeri_usd", "toplam_proje_maliyeti_usd",
   "insaat_maliyeti_try", "arsa_degeri_try", "toplam_proje_maliyeti_try",
   "yaklasik_konut_adedi", "kalan_satilabilir_alan_m2",
   "breakeven_usd_m2", "target_10_usd_m2", "target_30_usd_m2", "target_50_usd_m2",
   "breakeven_try_m2", "target_10_try_m2", "target_30_try_m2", "target_50_try_m2",
   "satis_birim_fiyat_usd_m2", "satis_birim_fiyat_try_m2",
   "proje_hasilati_usd", "proje_hasilati_try", "proje_kari_usd", "proje_kari_try",
   "brut_karlilik_orani"}

\* lines 55-181, on the converted inputs p
Calculate(p, usd_try_rate) ==
  LET emsal_insaat == FMul(p.arsa, p.emsal)
      satilabilir == FMul(emsal_insaat, p.satilabilir_katsayi)
      insaat_alani == FMul(satilabilir, p.otopark_katsayi)
      insaat_maliyeti == FMul(insaat_alani, p.insaat_maliyet_birim)
      toplam_maliyet == FAdd(insaat_maliyeti, p.arsa_degeri)
      adet == konut_adedi(satilabilir, p.ort_konut)
      breakeven == breakeven_usd_m2(toplam_maliyet, satilabilir)
      target_10 == target_price_usd_m2(toplam_maliyet, satilabilir, Margin10)
      target_30 == target_price_usd_m2(toplam_maliyet, satilabilir, Margin30)
      target_50 == target_price_usd_m2(toplam_maliyet, satilabilir, Margin50)
      gelir == RevenueMode(p.satis_fiyat)
      hasilat == FMul(satilabilir, p.satis_fiyat.v)
      kar == FSub(hasilat, toplam_maliyet)
      oran == IF gelir THEN Num(brut_karlilik(kar, toplam_maliyet)) ELSE None
      outputs ==
        [emsal_insaat_alani_m2 |-> Num(emsal_insaat),
         satilabilir_alan_m2 |-> Num(satilabilir),
         toplam_insaat_alani_m2 |-> Num(insaat_alani),
         insaat_maliyeti_usd |-> Num(insaat_maliyeti),
         arsa_degeri_usd |-> Num(p.arsa_degeri),
         toplam_proje_maliyeti_usd |-> Num(toplam_maliyet),
         insaat_maliyeti_try |-> to_try(Num(insaat_maliyeti), usd_try_rate),
         arsa_degeri_try |-> to_try(Num(p.arsa_degeri), usd_try_rate),
         toplam_proje_maliyeti_try |-> to_try(Num(toplam_maliyet), usd_try_rate),
         yaklasik_konut_adedi |-> adet,
         kalan_satilabilir_alan_m2 |-> Num(kalan_alan(satilabilir, adet, p.ort_konut)),
         breakeven_usd_m2 |-> Num(breakeven),
         target_10_usd_m2 |-> Num(target_10),
         target_30_usd_m2 |-> Num(target_30),
         target_50_usd_m2 |-> Num(target_50),
         breakeven_try_m2 |-> to_try(Num(breakeven), usd_try_rate),
         target_10_try_m2 |-> to_try(Num(target_10), usd_try_rate),
         target_30_try_m2 |-> to_try(Num(target_30), usd_try_rate),
         target_50_try_m2 |-> to_try(Num(target_50), usd_try_rate),
         satis_birim_fiyat_usd_m2 |-> p.satis_fiyat,
         satis_birim_fiyat_try_m2 |->
           IF p.satis_fiyat # None THEN to_try(p.satis_fiyat, usd_try_rate) ELSE None,
         proje_hasilati_usd |-> IF gelir THEN Num(hasilat) ELSE None,
         proje_hasilati_try |-> IF gelir THEN to_try(Num(hasilat), usd_try_rate) ELSE None,
         proje_kari_usd |-> IF gelir THEN Num(kar) ELSE None,
         proje_kari_try |-> IF gelir THEN to_try(Num(kar), usd_try_rate) ELSE None,
         brut_karlilik_orani |-> oran]
  IN Return(outputs, Warnings(p, usd_try_rate, oran))

compute_outputs(inputs, usd_try_rate) ==
  LET missing == MissingRequired(inputs)
      err == FirstErr(ConvErrors(inputs))
  IN IF missing # {}
     THEN Raise("ValueError",
                <<"Eksik alan", required[CHOOSE i \in missing : \A j \in missing : i <= j]>>)
     ELSE IF err # "" THEN Raise(err, <<>>)
     ELSE Calculate(Parse(inputs), usd_try_rate)

(***************************************************************************)
(* sensitivity (src/feasibility.py)                                        *)
(***************************************************************************)
\* cost_mults listed from the highest to the lowest
cost_mults_Descending == <<Dec(11, 10), FromInt(1), Dec(9, 10)>>

\* sales_mults going down from the sale price of the record
sales_mults_Below == <<Dec(8, 10), Dec(9, 10), FromInt(1)>>

\* lines 192-193
sales_mults == <<Dec(9, 10), FromInt(1), Dec(11, 10)>>
cost_mults == <<Dec(9, 10), FromInt(1), Dec(11, 10)>>

\* tmp with the class default multiplied, whatever cost the record gives
GridInputs_DefaultCost(base, tmp, cm, sm) ==
  [tmp EXCEPT
     !["satis_birim_fiyat_usd_m2"] = Num(FMul(base["satis_birim_fiyat_usd_m2"].v, sm)),
     !["insaat_maliyet_usd_m2"] =
        Num(FMul(IF tmp["konut_sinifi"].s \in DOMAIN DEFAULTS.insaat_maliyet_usd_m2
                 THEN DEFAULTS.insaat_maliyet_usd_m2[tmp["konut_sinifi"].s]
                 ELSE FZero, cm))]

\* lines 204-210: tmp after its two assignments; the sale price is read from
\* base, the construction cost from tmp itself
GridInputs(base, tmp, cm, sm) ==
  LET explicit == /\ Has(tmp, "insaat_maliyet_usd_m2")
                  /\ ~IsBlank(tmp["insaat_maliyet_usd_m2"])
      birim == IF explicit THEN tmp["insaat_maliyet_usd_m2"].v
               ELSE DEFAULTS.insaat_maliyet_usd_m2[tmp["konut_sinifi"].s]
  IN [tmp EXCEPT
        !["satis_birim_fiyat_usd_m2"] = Num(FMul(base["satis_birim_fiyat_usd_m2"].v, sm)),
        !["insaat_maliyet_usd_m2"] = Num(FMul(birim, cm))]

\* lines 213-219: the dict appended to row
Cell(out, cm, sm) ==
  [sales_mult |-> sm,
   cost_mult |-> cm,
   profit_usd |-> out.proje_kari_usd,
   profit_try |-> out.proje_kari_try,
   gross_margin |-> out.brut_karlilik_orani]

\* lines 197 and 222: the dict sensitivity returns
SensReturn(base_out, grid) ==
  [kind |-> "return", base |-> base_out, grid |-> grid,
   sales_mults |-> sales_mults, cost_mults |-> cost_mults]

\* line 196
NoSalePrice(base) == IsBlank(Get(base, "satis_birim_fiyat_usd_m2", None))

\* sensitivity as a function of its arguments, when nothing else runs
sensitivity(inputs, usd_try_rate) ==
  LET base == compute_outputs(inputs, usd_try_rate)
  IN IF base.kind = "raise" THEN base
     ELSE IF NoSalePrice(inputs) THEN SensReturn(base.outputs, <<>>)
     ELSE LET out == [i \in 1..3 |-> [j \in 1..3 |->
                       compute_outputs(
                         GridInputs(inputs, inputs, cost_mults[i], sales_mults[j]),
                         usd_try_rate)]]
              raised == {ij \in (1..3) \X (1..3) : out[ij[1]][ij[2]].kind = "raise"}
              first == CHOOSE ij \in raised : \A kl \in raised :
                         ij[1] < kl[1] \/ (ij[1] = kl[1] /\ ij[2] <= kl[2])
          IN IF raised # {} THEN out[first[1]][first[2]]
             ELSE SensReturn(base.outputs,
                    [i \in 1..3 |-> [j \in 1..3 |->
                       Cell(out[i][j].outputs, cost_mults[i], sales_mults[j])]])

(***************************************************************************)
(* The input records the calculator is called with: a scenario with at     *)
(* most MaxOverrides of its fields replaced or removed.                    *)
(***************************************************************************)
MaxOverrides == 2

Record(arsa, emsal, tip, sinif, deger, ort, satis) ==
  [k \in Keys |->
     CASE k = "arsa_alani_m2" -> arsa
       [] k = "emsal" -> emsal
       [] k = "otopark_tipi" -> tip
       [] k = "konut_sinifi" -> sinif
       [] k = "arsa_toplam_degeri_usd" -> deger
       [] k = "ortalama_konut_m2" -> ort
       [] k = "satis_birim_fiyat_usd_m2" -> satis
       [] OTHER -> Absent]

\* EXAMPLE_SCENARIOS "Kucuk Proje (5.000 m2)"
KucukProje ==
  Record(Num(FromInt(5000)), Num(Dec(18, 10)), Str("ACIK"), Str("ORTA"),
         Num(FromInt(2500000)), Num(FromInt(100)), Absent)

\* EXAMPLE_SCENARIOS "Orta Proje (8.500 m2)", with a sale price
OrtaProje ==
  Record(Num(FromInt(8500)), Num(FromInt(2)), Str("KAPALI"), Str("YUKSEK"),
         Num(FromInt(5500000)), Num(FromInt(135)), Num(FromInt(3000)))

\* a site whose sellable area, 32400 m2, is 375 units of 86.4 m2
TamBolunen ==
  Record(Num(FromInt(14400)), Num(Dec(18, 10)), Str("ACIK"), Str("ORTA"),
         Num(FromInt(2500000)), Num(Dec(864, 10)), Absent)

\* a project that costs nothing: free land, free construction, with a sale price
Bedava ==
  [Record(Num(FromInt(5000)), Num(Dec(18, 10)), Str("ACIK"), Str("ORTA"),
          Num(FZero), Num(FromInt(100)), Num(FromInt(1800)))
     EXCEPT !["insaat_maliyet_usd_m2"] = Num(FZero)]

Scenarios == {KucukProje, OrtaProje, TamBolunen, Bedava}

Blanks == {Absent, None, Str("")}

\* the values an overridden field takes
Alternatives ==
  [k \in Keys |->
     CASE k = "arsa_alani_m2" -> Blanks \cup {Num(FZero), Num(FromInt(-100))}
       [] k = "emsal" -> Blanks \cup {Num(FZero), Num(FromInt(6))}
       [] k = "satilabilir_katsayi" ->
            {None, Str(""), Num(FZero), Num(FromInt(1)), Num(Dec(17, 10))}
       [] k = "otopark_tipi" -> Blanks \cup {Str("ACIK"), Str("KAPALI"), Str("DIGER")}
       [] k = "otopark_katsayi" -> {None, Str(""), Num(FZero), Num(Dec(15, 10))}
       [] k = "konut_sinifi" -> Blanks \cup {Str("ALT"), Str("YUKSEK"), Str("DIGER")}
       [] k = "insaat_maliyet_usd_m2" -> {None, Str(""), Num(FZero), Num(FromInt(800))}
       [] k = "arsa_toplam_degeri_usd" -> Blanks \cup {Num(FZero), Num(FromInt(-1))}
       [] k = "ortalama_konut_m2" -> Blanks \cup {Num(FZero), Num(FromInt(300))}
       [] k = "satis_birim_fiyat_usd_m2" ->
            Blanks \cup {Num(FZero), Num(FromInt(-5)), Num(FromInt(1000)),
                         Num(FromInt(1400)), Num(FromInt(1500)), Num(FromInt(1800))}]

RECURSIVE Overridden(_, _)
Overridden(S, n) ==
  IF n = 0 THEN S
  ELSE LET P == Overridden(S, n - 1)
       IN P \cup {[r EXCEPT ![k] = v] : r \in P, <<k, v>> \in
                    {<<k, v>> \in Keys \X UNION {Alternatives[j] : j \in Keys} :
                       v \in Alternatives[k]}}

InputRecords == Overridden(Scenarios, MaxOverrides)

\* the exchange rate the caller passes: none, or 34.27 TRY per USD
Rates == {None, Num(Dec(3427, 100))}

(***************************************************************************)
(* The dicts of the program live in a heap, so that two names can denote   *)
(* the same dict.  Every caller owns three addresses: the dict it passes   *)
(* as inputs, and the two dicts a call of sensitivity allocates, base and  *)
(* tmp (a new tmp in every pass of the loop takes the place of the last    *)
(* one, which nothing refers to any more).                                 *)
(***************************************************************************)
MaxCallers == 2
MaxCallOverrides == 1

Callers == 1..MaxCallers

InputsAddr(c) == <<c, "inputs">>
BaseAddr(c) == <<c, "base">>

\* one tmp dict for all callers instead of one per call
TmpAddr_Shared(c) == <<1, "tmp">>

TmpAddr(c) == <<c, "tmp">>

Addrs == Callers \X {"inputs", "base", "tmp"}
NoAddr == <<0, "">>

\* {}
EmptyDict == [k \in Keys |-> Absent]

\* dict(d) giving d itself instead of a copy
dict_Alias(h, src, fresh) == [heap |-> h, ref |-> src]

\* dict(d): a new dict at the address fresh with the items of the dict at src
dict(h, src, fresh) == [heap |-> [h EXCEPT ![fresh] = h[src]], ref |-> fresh]

NotCalled == [kind |-> "none"]

\* the two functions of the module
Fns == {"compute_outputs", "sensitivity"}

\* the locals of a call that has not started: arg is the dict compute_outputs
\* is called on, out what it gave, after the place to go on from
NewFrame(c, fn, rate) ==
  [fn |-> fn, inputs |-> InputsAddr(c), usd_try_rate |-> rate, pc |-> "call",
   arg |-> NoAddr, out |-> NotCalled, after |-> "",
   base |-> NoAddr, base_out |-> None, tmp |-> NoAddr, i |-> 1, j |-> 1,
   row |-> <<>>, grid |-> <<>>, calls |-> 0, ret |-> NotCalled]

\* a caller that calls nothing
NoFrame == [NewFrame(0, "none", None) EXCEPT !.pc = "idle", !.inputs = NoAddr]

\* the fields sensitivity reads, and two more that decide the cost
CallKeys ==
  {"satis_birim_fiyat_usd_m2", "insaat_maliyet_usd_m2", "konut_sinifi", "emsal",
   "arsa_toplam_degeri_usd"}

\* the records of a single call: a scenario with at most MaxCallOverrides of
\* the fields of CallKeys replaced or removed
CallRecords ==
  {r \in Overridden(Scenarios, MaxCallOverrides) :
     \E sc \in Scenarios : \A k \in Keys \ CallKeys : r[k] = sc[k]}

\* the calls that run interleaved: <<inputs, usd_try_rate, function>>
ConcurrentCalls ==
  {<<KucukProje, None, "compute_outputs">>,
   <<KucukProje, None, "sensitivity">>,
   <<Bedava, None, "sensitivity">>,
   <<OrtaProje, Num(Dec(3427, 100)), "sensitivity">>}

(***************************************************************************)
(* The page script (src/app_modern.py): the helpers it calls.  A function  *)
(* that takes a dict gives back the dict it returns (out) and its argument *)
(* as the call leaves it (inputs).                                         *)
(***************************************************************************)
\* out.setdefault(k, v)
setdefault(out, k, v) == IF Has(out, k) THEN out ELSE [out EXCEPT ![k] = v]

\* lines 114-115 on out
FillOtopark(out) ==
  IF /\ Get(out, "otopark_tipi", None) \in {Str("ACIK"), Str("KAPALI")}
     /\ ~Has(out, "otopark_katsayi")
  THEN [out EXCEPT !["otopark_katsayi"] =
                     Num(DEFAULTS.otopark_katsayi[out["otopark_tipi"].s])]
  ELSE out

\* lines 116-117 on out
FillMaliyet(out) ==
  IF /\ Get(out, "konut_sinifi", None) \in {Str("ALT"), Str("ORTA"), Str("YUKSEK")}
     /\ ~Has(out, "insaat_maliyet_usd_m2")
  THEN [out EXCEPT !["insaat_maliyet_usd_m2"] =
                     Num(DEFAULTS.insaat_maliyet_usd_m2[out["konut_sinifi"].s])]
  ELSE out

\* lines 112-117 on out, one statement after the other
FillDefaults(out) ==
  FillMaliyet(
    FillOtopark(
      setdefault(setdefault(out, "satilabilir_katsayi", Num(DEFAULTS.satilabilir_katsayi)),
                 "ortalama_konut_m2", Num(DEFAULTS.ortalama_konut_m2))))

\* ensure_defaults with out = inputs, the same dict under another name
ensure_defaults_InPlace(inputs) ==
  [inputs |-> FillDefaults(inputs), out |-> FillDefaults(inputs)]

\* lines 110-118: out = dict(inputs) is a copy, the fields are set on out
ensure_defaults(inputs) ==
  [inputs |-> inputs, out |-> FillDefaults(inputs)]

\* lines 232-236: merged = dict(inputs) takes every key of the patch, then
\* goes through ensure_defaults
merge_patch(inputs, patch) ==
  LET merged == [k \in Keys |-> IF Has(patch, k) THEN patch[k] ELSE inputs[k]]
  IN [inputs |-> inputs, merged |-> merged, out |-> ensure_defaults(merged).out]

\* lines 238-243: None (kind "nothing") unless the five fields of must are
\* there, else what compute_outputs gives
compute_if_possible(inputs, rate) ==
  IF \A n \in 1..Len(required) :
       Has(inputs, required[n]) /\ ~IsBlank(inputs[required[n]])
  THEN compute_outputs(inputs, rate)
  ELSE [kind |-> "nothing"]

\* check_and_increment_quota denying only above the limit
check_and_increment_quota_Above(store, today, key, limit) ==
  LET s == IF store.day # today
           THEN [day |-> today, counts |-> [k \in DOMAIN store.counts |-> 0]]
           ELSE store
      count == s.counts[key]
  IN IF limit >= 1000 THEN [store |-> s, ret |-> <<TRUE, 999999, 999999>>]
     ELSE IF count > limit THEN [store |-> s, ret |-> <<FALSE, 0, limit>>]
     ELSE [store |-> [s EXCEPT !.counts[key] = count + 1],
           ret |-> <<TRUE, Max(0, limit - count) - 1, limit>>]

\* lines 84-108: the store after the call and the tuple it returns; a key
\* that is not in store["counts"] counts 0
check_and_increment_quota(store, today, key, limit) ==
  LET s == IF store.day # today
           THEN [day |-> today, counts |-> [k \in DOMAIN store.counts |-> 0]]
           ELSE store
      count == s.counts[key]
      remaining == Max(0, limit - count)
  IN IF limit >= 1000 THEN [store |-> s, ret |-> <<TRUE, 999999, 999999>>]
     ELSE IF count >= limit THEN [store |-> s, ret |-> <<FALSE, 0, limit>>]
     ELSE [store |-> [s EXCEPT !.counts[key] = count + 1],
           ret |-> <<TRUE, remaining - 1, limit>>]

(***************************************************************************)
(* The page script runs once per interaction of a user with the page; the  *)
(* usage store is shared by all users of the process, st.session_state is  *)
(* the user's own.                                                         *)
(***************************************************************************)
MaxUsers == 2
MaxDays == 2
MaxLimit == 2

\* stable_user_key() of a session, lines 71-78
Users == 1..MaxUsers

\* int(st.secrets.get("DAILY_LIMIT", ...)), line 97; from 1000 on, no limit
Limits == {0, MaxLimit, 1000}

\* usage_store() when it is created, lines 80-82
NewStore == [day |-> 1, counts |-> [k \in Users |-> 0]]

\* a patch of llm_extract_patch with the one key k
Patch(k, v) == [EmptyDict EXCEPT ![k] = v]

\* the patches a chat message leads to: the five required fields of the
\* small project, another class and parking type, a construction cost
Patches ==
  {[k \in Keys |-> IF k \in {"arsa_alani_m2", "emsal", "otopark_tipi", "konut_sinifi",
                             "arsa_toplam_degeri_usd"}
                   THEN KucukProje[k] ELSE Absent],
   [Patch("konut_sinifi", Str("YUKSEK")) EXCEPT !["otopark_tipi"] = Str("KAPALI")],
   Patch("insaat_maliyet_usd_m2", Num(FromInt(800)))}

\* the values of the widgets of the form, lines 588-665
Widget(arsa, emsal, arsa_degeri, konut_sinifi, otopark_tipi, sat_kats, ot_kats, cost, ort_konut, satis) ==
  [arsa |-> arsa, emsal |-> emsal, arsa_degeri |-> arsa_degeri,
   konut_sinifi |-> konut_sinifi, otopark_tipi |-> otopark_tipi, sat_kats |-> sat_kats,
   ot_kats |-> ot_kats, cost |-> cost, ort_konut |-> ort_konut, satis |-> satis]

\* the form as it first shows for an empty record, and filled in for the
\* small project with a sale price
Widgets ==
  {Widget(FZero, FZero, FZero, "ORTA", "ACIK", Dec(125, 100), Dec(120, 100),
          FromInt(900), FromInt(120), FZero),
   Widget(FromInt(5000), Dec(18, 10), FromInt(2500000), "ORTA", "ACIK", Dec(125, 100),
          Dec(120, 100), FromInt(900), FromInt(100), FromInt(1800))}

\* lines 670-681: the dict the HESAPLA handler builds from the widgets
FormInputs(w) ==
  [k \in Keys |->
     CASE k = "arsa_alani_m2" -> Num(w.arsa)
       [] k = "emsal" -> Num(w.emsal)
       [] k = "satilabilir_katsayi" -> Num(w.sat_kats)
       [] k = "otopark_tipi" -> Str(w.otopark_tipi)
       [] k = "otopark_katsayi" -> Num(w.ot_kats)
       [] k = "konut_sinifi" -> Str(w.konut_sinifi)
       [] k = "insaat_maliyet_usd_m2" -> Num(w.cost)
       [] k = "arsa_toplam_degeri_usd" -> Num(w.arsa_degeri)
       [] k = "ortalama_konut_m2" -> Num(w.ort_konut)
       [] k = "satis_birim_fiyat_usd_m2" ->
            IF FGt(w.satis, FZero) THEN Num(w.satis) ELSE None]

\* the scenarios of the sidebar, lines 33-57; none has a sale price
EXAMPLE_SCENARIOS ==
  {KucukProje,
   [OrtaProje EXCEPT !["satis_birim_fiyat_usd_m2"] = Absent],
   Record(Num(FromInt(15000)), Num(Dec(22, 10)), Str("KAPALI"), Str("YUKSEK"),
          Num(FromInt(10000000)), Num(FromInt(150)), Absent)}

\* the two fields ensure_defaults derives from a category
Derived == {"insaat_maliyet_usd_m2", "otopark_katsayi"}

\* a call of ensure_defaults: the dict passed, the same dict after the call,
\* and the dict returned
Call(arg, r) == [arg |-> arg, inputs |-> r.inputs, out |-> r.out]

\* no call of ensure_defaults
NoCall == Call(EmptyDict, [inputs |-> EmptyDict, out |-> EmptyDict])

\* st.session_state after lines 397-407; carried is the set of the fields of
\* Derived that a patch has given since the record was ensure_defaults({}),
\* fresh is FALSE once the record came from somewhere else
NewSession ==
  [inputs |-> ensure_defaults(EmptyDict).out,
   pc |-> "idle",
   carried |-> {},
   fresh |-> TRUE]

\* what the last step called: check_and_increment_quota for the key (at is
\* "none" when it did not), and ensure_defaults
Event(key, at, ret, call) == [key |-> key, at |-> at, ret |-> ret, call |-> call]

\* a step that called ensure_defaults only
Defaulted(call) == Event(0, "none", <<FALSE, 0, 0>>, call)

\* a step that called neither
NoEvent == Defaulted(NoCall)

(***************************************************************************)
(* A caller holds an input record and an exchange rate and calls           *)
(* compute_outputs once.                                                   *)
(***************************************************************************)
VARIABLES inputs, usd_try_rate, result, heap, frame,
          store, today, limit, session, event

callvars == <<inputs, usd_try_rate, result, heap, frame>>
appvars == <<store, today, limit, session, event>>
vars == <<inputs, usd_try_rate, result, heap, frame, store, today, limit, session, event>>

\* nobody has opened the page
AppIdle ==
  /\ store = NewStore
  /\ today = 1
  /\ limit = MaxLimit
  /\ session = <<>>
  /\ event = NoEvent

Init ==
  /\ inputs \in InputRecords
  /\ usd_try_rate \in Rates
  /\ result = NotCalled
  /\ heap = [a \in Addrs |-> EmptyDict]
  /\ frame = [c \in Callers |-> NoFrame]
  /\ AppIdle

\* outputs, warnings = compute_outputs(inputs, usd_try_rate)
Compute ==
  /\ result = NotCalled
  /\ result' = compute_outputs(inputs, usd_try_rate)
  /\ UNCHANGED <<inputs, usd_try_rate, heap, frame>>
  /\ UNCHANGED appvars

Next == Compute

Spec == Init /\ [][Next]_vars

(***************************************************************************)
(* Callers of compute_outputs and of sensitivity.  A call of               *)
(* compute_outputs is one step, ComputeOutputs, whoever makes it; calls    *)
(* counts the calls made on behalf of the caller.  A call of sensitivity   *)
(* takes a step up to its call of compute_outputs on base and one after    *)
(* it, and for every cell a step up to the call on tmp and one after it.   *)
(* A local is bound with \E x \in {e}, which evaluates e once.             *)
(***************************************************************************)
\* the caller calls compute_outputs(inputs, usd_try_rate)
Direct(c) ==
  /\ frame[c].pc = "call"
  /\ frame[c].fn = "compute_outputs"
  /\ \E f \in {frame[c]} :
       frame' = [frame EXCEPT ![c] =
                   [f EXCEPT !.arg = f.inputs, !.after = "done", !.pc = "compute"]]
  /\ UNCHANGED <<inputs, usd_try_rate, result, heap>>
  /\ UNCHANGED appvars

\* compute_outputs runs on the dict at arg; a direct call returns to the caller
ComputeOutputs(c) ==
  /\ frame[c].pc = "compute"
  /\ \E f \in {frame[c]} :
     \E r \in {compute_outputs(heap[f.arg], f.usd_try_rate)} :
       frame' = [frame EXCEPT ![c] =
         [f EXCEPT !.out = r, !.calls = f.calls + 1, !.pc = f.after,
                   !.ret = IF f.fn = "compute_outputs" THEN r ELSE f.ret]]
  /\ UNCHANGED <<inputs, usd_try_rate, result, heap>>
  /\ UNCHANGED appvars

\* the caller calls sensitivity(inputs, usd_try_rate): line 189 and the call of
\* line 190
SensEnter(c) ==
  /\ frame[c].pc = "call"
  /\ frame[c].fn = "sensitivity"
  /\ \E f \in {frame[c]} :
     \E d \in {dict(heap, f.inputs, BaseAddr(c))} :
       /\ heap' = d.heap
       /\ frame' = [frame EXCEPT ![c] =
            [f EXCEPT !.base = d.ref, !.arg = d.ref, !.after = "base", !.pc = "compute"]]
  /\ UNCHANGED <<inputs, usd_try_rate, result>>
  /\ UNCHANGED appvars

\* lines 190-199, once the call of line 190 is over
SensBase(c) ==
  /\ frame[c].pc = "base"
  /\ \E f \in {frame[c]} :
       frame' = [frame EXCEPT ![c] =
         IF f.out.kind = "raise" THEN [f EXCEPT !.ret = f.out, !.pc = "done"]
         ELSE IF NoSalePrice(heap[f.base])
         THEN [f EXCEPT !.base_out = f.out.outputs,
                        !.ret = SensReturn(f.out.outputs, <<>>), !.pc = "done"]
         ELSE [f EXCEPT !.base_out = f.out.outputs, !.pc = "tmp"]]
  /\ UNCHANGED <<inputs, usd_try_rate, result, heap>>
  /\ UNCHANGED appvars

\* lines 203-210 and the call of line 212
Tmp(c) ==
  /\ frame[c].pc = "tmp"
  /\ \E f \in {frame[c]} :
     \E d \in {dict(heap, f.base, TmpAddr(c))} :
       /\ heap' = [d.heap EXCEPT ![d.ref] =
            GridInputs(d.heap[f.base], d.heap[d.ref], cost_mults[f.i], sales_mults[f.j])]
       /\ frame' = [frame EXCEPT ![c] =
            [f EXCEPT !.tmp = d.ref, !.arg = d.ref, !.after = "out", !.pc = "compute"]]
  /\ UNCHANGED <<inputs, usd_try_rate, result>>
  /\ UNCHANGED appvars

\* lines 212-222, once the call of line 212 is over
Out(c) ==
  /\ frame[c].pc = "out"
  /\ \E f \in {frame[c]} :
       IF f.out.kind = "raise"
       THEN frame' = [frame EXCEPT ![c] = [f EXCEPT !.ret = f.out, !.pc = "done"]]
       ELSE \E row \in {Append(f.row,
                          Cell(f.out.outputs, cost_mults[f.i], sales_mults[f.j]))} :
            \E grid \in {Append(f.grid, row)} :
              frame' = [frame EXCEPT ![c] =
                IF f.j < Len(sales_mults)
                THEN [f EXCEPT !.row = row, !.j = f.j + 1, !.pc = "tmp"]
                ELSE IF f.i < Len(cost_mults)
                THEN [f EXCEPT !.grid = grid, !.row = <<>>, !.i = f.i + 1, !.j = 1,
                               !.pc = "tmp"]
                ELSE [f EXCEPT !.grid = grid, !.row = row,
                               !.ret = SensReturn(f.base_out, grid), !.pc = "done"]]
  /\ UNCHANGED <<inputs, usd_try_rate, result, heap>>
  /\ UNCHANGED appvars

NextCalls ==
  \E c \in Callers :
    Direct(c) \/ ComputeOutputs(c) \/ SensEnter(c) \/ SensBase(c) \/ Tmp(c) \/ Out(c)

\* one caller, one call, on any record of CallRecords
InitCalls ==
  /\ inputs = KucukProje
  /\ usd_try_rate = None
  /\ result = NotCalled
  /\ AppIdle
  /\ \E r \in CallRecords, rate \in Rates, fn \in Fns :
       /\ heap = [a \in Addrs |-> IF a = InputsAddr(1) THEN r ELSE EmptyDict]
       /\ frame = [c \in Callers |-> IF c = 1 THEN NewFrame(c, fn, rate) ELSE NoFrame]

SpecCalls == InitCalls /\ [][NextCalls]_vars

\* every caller makes one call, the calls run interleaved
InitConcurrent ==
  /\ inputs = KucukProje
  /\ usd_try_rate = None
  /\ result = NotCalled
  /\ AppIdle
  /\ \E arg \in [Callers -> ConcurrentCalls] :
       /\ heap = [a \in Addrs |-> IF a[2] = "inputs" THEN arg[a[1]][1] ELSE EmptyDict]
       /\ frame = [c \in Callers |-> NewFrame(c, arg[c][3], arg[c][2])]

SpecConcurrent == InitConcurrent /\ [][NextCalls]_vars

(***************************************************************************)
(* One run of the page script by the user u, from the sidebar down to the  *)
(* handler of the widget that started the run.  st.rerun() ends the run    *)
(* and starts another one in which no widget is pressed.  The runs are     *)
(* taken one after another: a run starts when no other user's run is under *)
(* way.                                                                    *)
(***************************************************************************)
\* lines 453-454: the sidebar asks check_and_increment_quota for the numbers
\* it shows; then the script goes on to the widget that was used
Sidebar(u) ==
  /\ session[u].pc \in {"idle", "rerun"}
  /\ \A v \in Users \ {u} : session[v].pc = "idle"
  /\ \E q \in {check_and_increment_quota(store, today, u, limit)} :
       /\ store' = q.store
       /\ event' = Event(u, "sidebar", q.ret, NoCall)
  /\ \E w \in IF session[u].pc = "rerun" THEN {"results"}
              ELSE {"reset", "load", "chat", "hesapla", "results"} :
       session' = [session EXCEPT ![u].pc = w]
  /\ UNCHANGED <<today, limit>>
  /\ UNCHANGED callvars

\* lines 465-469: Yeni Hesaplama
Reset(u) ==
  /\ session[u].pc = "reset"
  /\ \E e \in {ensure_defaults(EmptyDict)} :
       /\ session' = [session EXCEPT ![u] =
                        [inputs |-> e.out, pc |-> "rerun", carried |-> {}, fresh |-> TRUE]]
       /\ event' = Defaulted(Call(EmptyDict, e))
  /\ UNCHANGED <<store, today, limit>>
  /\ UNCHANGED callvars

\* lines 483-488: Yukle
Load(u) ==
  /\ session[u].pc = "load"
  /\ \E sc \in EXAMPLE_SCENARIOS : \E e \in {ensure_defaults(sc)} :
       /\ session' = [session EXCEPT ![u] =
                        [inputs |-> e.out, pc |-> "rerun", carried |-> {}, fresh |-> FALSE]]
       /\ event' = Defaulted(Call(sc, e))
  /\ UNCHANGED <<store, today, limit>>
  /\ UNCHANGED callvars

\* lines 523-577: a chat message, its patch merged into the record
Chat(u) ==
  /\ session[u].pc = "chat"
  /\ \E patch \in Patches : \E m \in {merge_patch(session[u].inputs, patch)} :
       /\ session' = [session EXCEPT ![u] =
                        [inputs |-> m.out, pc |-> "rerun",
                         carried |-> session[u].carried
                                       \cup {k \in Derived : Has(patch, k)},
                         fresh |-> session[u].fresh]]
       /\ event' = Defaulted(Call(m.merged, ensure_defaults(m.merged)))
  /\ UNCHANGED <<store, today, limit>>
  /\ UNCHANGED callvars

\* lines 668-693: HESAPLA; the record is set from the form, then the quota is
\* asked, and only a granted press reruns the script
Hesapla(u) ==
  /\ session[u].pc = "hesapla"
  /\ \E w \in Widgets :
       \E e \in {ensure_defaults(FormInputs(w))},
          q \in {check_and_increment_quota(store, today, u, limit)} :
         /\ session' = [session EXCEPT ![u] =
                          [inputs |-> e.out,
                           pc |-> IF q.ret[1] THEN "rerun" ELSE "results",
                           carried |-> {}, fresh |-> FALSE]]
         /\ store' = q.store
         /\ event' = Event(u, "hesapla", q.ret, Call(FormInputs(w), e))
  /\ UNCHANGED <<today, limit>>
  /\ UNCHANGED callvars

\* lines 695-701: the results tab shows compute_if_possible of the record and
\* the run ends
Results(u) ==
  /\ session[u].pc = "results"
  /\ session' = [session EXCEPT ![u].pc = "idle"]
  /\ event' = NoEvent
  /\ UNCHANGED <<store, today, limit>>
  /\ UNCHANGED callvars

\* date.today() moves on
NextDay ==
  /\ today < MaxDays
  /\ today' = today + 1
  /\ event' = NoEvent
  /\ UNCHANGED <<store, limit, session>>
  /\ UNCHANGED callvars

NextApp ==
  \/ NextDay
  \/ \E u \in Users :
       Sidebar(u) \/ Reset(u) \/ Load(u) \/ Chat(u) \/ Hesapla(u) \/ Results(u)

InitApp ==
  /\ inputs = KucukProje
  /\ usd_try_rate = None
  /\ result = NotCalled
  /\ heap = [a \in Addrs |-> EmptyDict]
  /\ frame = [c \in Callers |-> NoFrame]
  /\ store = NewStore
  /\ today = 1
  /\ limit \in Limits
  /\ session = [u \in Users |-> NewSession]
  /\ event = NoEvent

SpecApp == InitApp /\ [][NextApp]_vars

(***************************************************************************)
(* Properties of compute_outputs.  In all of them "x" and "/" are the      *)
(* float operations the code performs.                                     *)
(***************************************************************************)

\* C1: once the five required fields are present and neither None nor "",
\* compute_outputs returns an (outputs, warnings) pair and never raises,
\* whatever the optional fields and the two category values hold.
C1_TotalOnceRequiredPresent ==
  (result # NotCalled /\ \A i \in 1..Len(required) : inputs[required[i]] \notin Blanks)
    => result.kind = "return"

\* C2: exactly when one of the five required fields is missing, None or "",
\* compute_outputs raises ValueError("Eksik alan: k") for a field k that is
\* missing, None or "", and returns neither outputs nor warnings; a zero in a
\* required field is not missing.
C2_MissingFieldRaises ==
  result # NotCalled =>
    LET missing == {k \in {required[i] : i \in 1..Len(required)} : inputs[k] \in Blanks}
        eksik == result.kind = "raise" /\ result.exc = "ValueError"
                   /\ result.msg # <<>> /\ result.msg[1] = "Eksik alan"
    IN /\ (missing # {}) <=> eksik
       /\ eksik => /\ result.msg[2] \in missing
                   /\ DOMAIN result = {"kind", "exc", "msg"}

\* a required field is 0, another is missing, and the error names the missing one
C2_Witness ==
  /\ result.kind = "raise"
  /\ result.msg = <<"Eksik alan", "emsal">>
  /\ inputs["arsa_alani_m2"] = Num(FZero)
  /\ inputs["emsal"] = Absent

\* C3: emsal_insaat = arsa x emsal, satilabilir = emsal_insaat x
\* satilabilir_katsayi and insaat_alani = satilabilir x otopark_katsayi, with
\* 1.25 for an absent satilabilir_katsayi and 1.20 (ACIK) or 1.60 (KAPALI) for
\* an absent otopark_katsayi.
C3_Areas ==
  result.kind = "return" =>
    LET out == result.outputs
        sat == IF inputs["satilabilir_katsayi"] = Absent THEN Dec(125, 100)
               ELSE inputs["satilabilir_katsayi"].v
        oto == IF inputs["otopark_katsayi"] # Absent THEN inputs["otopark_katsayi"].v
               ELSE IF inputs["otopark_tipi"] = Str("ACIK") THEN Dec(120, 100)
               ELSE Dec(160, 100)
    IN /\ out.emsal_insaat_alani_m2.v = FMul(inputs["arsa_alani_m2"].v, inputs["emsal"].v)
       /\ out.satilabilir_alan_m2.v = FMul(out.emsal_insaat_alani_m2.v, sat)
       /\ out.toplam_insaat_alani_m2.v = FMul(out.satilabilir_alan_m2.v, oto)

\* both coefficients defaulted, enclosed parking, a positive area
C3_Witness ==
  /\ result.kind = "return"
  /\ inputs["satilabilir_katsayi"] = Absent
  /\ inputs["otopark_katsayi"] = Absent
  /\ inputs["otopark_tipi"] = Str("KAPALI")
  /\ result.outputs.toplam_insaat_alani_m2.v.s = 1

\* C4 as stated: insaat_maliyeti = insaat_alani x insaat_maliyet_usd_m2 (700,
\* 900 or 1100 by konut_sinifi when absent), toplam_maliyet = insaat_maliyeti +
\* arsa_degeri, and breakeven x satilabilir = toplam_maliyet exactly whenever
\* satilabilir > 0.
C4_BreakevenExact ==
  result.kind = "return" =>
    LET out == result.outputs
        birim == IF inputs["insaat_maliyet_usd_m2"] # Absent
                 THEN inputs["insaat_maliyet_usd_m2"].v
                 ELSE IF inputs["konut_sinifi"] = Str("ALT") THEN FromInt(700)
                 ELSE IF inputs["konut_sinifi"] = Str("ORTA") THEN FromInt(900)
                 ELSE FromInt(1100)
    IN /\ out.insaat_maliyeti_usd.v = FMul(out.toplam_insaat_alani_m2.v, birim)
       /\ out.toplam_proje_maliyeti_usd.v =
            FAdd(out.insaat_maliyeti_usd.v, inputs["arsa_toplam_degeri_usd"].v)
       /\ FGt(out.satilabilir_alan_m2.v, FZero) =>
            FMul(out.breakeven_usd_m2.v, out.satilabilir_alan_m2.v)
              = out.toplam_proje_maliyeti_usd.v

\* C4 amended: the two cost equations hold exactly, and breakeven x satilabilir
\* is toplam_maliyet up to float rounding (math.isclose) whenever satilabilir > 0.
C4_BreakevenClose ==
  result.kind = "return" =>
    LET out == result.outputs
        birim == IF inputs["insaat_maliyet_usd_m2"] # Absent
                 THEN inputs["insaat_maliyet_usd_m2"].v
                 ELSE IF inputs["konut_sinifi"] = Str("ALT") THEN FromInt(700)
                 ELSE IF inputs["konut_sinifi"] = Str("ORTA") THEN FromInt(900)
                 ELSE FromInt(1100)
    IN /\ out.insaat_maliyeti_usd.v = FMul(out.toplam_insaat_alani_m2.v, birim)
       /\ out.toplam_proje_maliyeti_usd.v =
            FAdd(out.insaat_maliyeti_usd.v, inputs["arsa_toplam_degeri_usd"].v)
       /\ FGt(out.satilabilir_alan_m2.v, FZero) =>
            IsClose(FMul(out.breakeven_usd_m2.v, out.satilabilir_alan_m2.v),
                    out.toplam_proje_maliyeti_usd.v)

\* a positive sellable area whose breakeven price does not multiply back exactly
C4_Witness ==
  /\ result.kind = "return"
  /\ result.outputs.satilabilir_alan_m2.v.s = 1
  /\ inputs["insaat_maliyet_usd_m2"] = Absent
  /\ FMul(result.outputs.breakeven_usd_m2.v, result.outputs.satilabilir_alan_m2.v)
       # result.outputs.toplam_proje_maliyeti_usd.v

\* C5 as stated: for every margin m in {0.10, 0.30, 0.50} and satilabilir > 0,
\* target_price(m) x satilabilir = toplam_maliyet x (1 + m) exactly.
C5_TargetExact ==
  (result.kind = "return" /\ FGt(result.outputs.satilabilir_alan_m2.v, FZero)) =>
    LET out == result.outputs
        price == <<out.target_10_usd_m2.v, out.target_30_usd_m2.v, out.target_50_usd_m2.v>>
        margin == <<Dec(10, 100), Dec(30, 100), Dec(50, 100)>>
    IN \A i \in 1..3 :
         FMul(price[i], out.satilabilir_alan_m2.v)
           = FMul(out.toplam_proje_maliyeti_usd.v, FAdd(FromInt(1), margin[i]))

\* C5 amended: for every margin m in {0.10, 0.30, 0.50} and satilabilir > 0,
\* target_price(m) x satilabilir is toplam_maliyet x (1 + m) up to float
\* rounding (math.isclose).
C5_TargetClose ==
  (result.kind = "return" /\ FGt(result.outputs.satilabilir_alan_m2.v, FZero)) =>
    LET out == result.outputs
        price == <<out.target_10_usd_m2.v, out.target_30_usd_m2.v, out.target_50_usd_m2.v>>
        margin == <<Dec(10, 100), Dec(30, 100), Dec(50, 100)>>
    IN \A i \in 1..3 :
         IsClose(FMul(price[i], out.satilabilir_alan_m2.v),
                 FMul(out.toplam_proje_maliyeti_usd.v, FAdd(FromInt(1), margin[i])))

\* a positive sellable area whose 10 % target price does not multiply back exactly
C5_Witness ==
  /\ result.kind = "return"
  /\ result.outputs.satilabilir_alan_m2.v.s = 1
  /\ FMul(result.outputs.target_10_usd_m2.v, result.outputs.satilabilir_alan_m2.v)
       # FMul(result.outputs.toplam_proje_maliyeti_usd.v, FAdd(FromInt(1), Dec(10, 100)))

\* C6 as stated: for every input whose required fields are present and whose
\* numeric fields are all non-negative, target_10 < target_30 < target_50.
C6_TargetsIncrease ==
  (result.kind = "return" /\ \A k \in Keys : inputs[k].v.s >= 0) =>
    /\ FLt(result.outputs.target_10_usd_m2.v, result.outputs.target_30_usd_m2.v)
    /\ FLt(result.outputs.target_30_usd_m2.v, result.outputs.target_50_usd_m2.v)

\* C6 amended: for every such input with satilabilir > 0 and toplam_maliyet > 0,
\* target_10 < target_30 < target_50.
C6_TargetsIncreasePositive ==
  (/\ result.kind = "return"
   /\ \A k \in Keys : inputs[k].v.s >= 0
   /\ FGt(result.outputs.satilabilir_alan_m2.v, FZero)
   /\ FGt(result.outputs.toplam_proje_maliyeti_usd.v, FZero)) =>
    /\ FLt(result.outputs.target_10_usd_m2.v, result.outputs.target_30_usd_m2.v)
    /\ FLt(result.outputs.target_30_usd_m2.v, result.outputs.target_50_usd_m2.v)

\* non-negative inputs, positive area and cost, three distinct target prices
C6_Witness ==
  /\ result.kind = "return"
  /\ \A k \in Keys : inputs[k].v.s >= 0
  /\ result.outputs.satilabilir_alan_m2.v.s = 1
  /\ result.outputs.toplam_proje_maliyeti_usd.v.s = 1
  /\ FLt(result.outputs.target_10_usd_m2.v, result.outputs.target_50_usd_m2.v)

\* C7 as stated: proje_hasilati, proje_kari and brut_karlilik_orani and the TRY
\* copies of the first two are non-None iff the sale price is present and > 0.
C7_RevenueFieldsIffPrice ==
  result.kind = "return" =>
    LET out == result.outputs
        fiyat == inputs["satis_birim_fiyat_usd_m2"]
        positive == fiyat.t = "float" /\ FGt(fiyat.v, FZero)
    IN \A x \in {out.proje_hasilati_usd, out.proje_hasilati_try, out.proje_kari_usd,
                 out.proje_kari_try, out.brut_karlilik_orani} :
         (x # None) <=> positive

\* C7 amended: proje_hasilati_usd, proje_kari_usd and brut_karlilik_orani are
\* non-None iff the sale price is present and > 0; the TRY copies are non-None
\* iff, besides, an exchange rate was given; without a positive sale price all
\* five are None, never 0.
C7_RevenueFields ==
  result.kind = "return" =>
    LET out == result.outputs
        fiyat == inputs["satis_birim_fiyat_usd_m2"]
        positive == fiyat.t = "float" /\ FGt(fiyat.v, FZero)
    IN /\ \A x \in {out.proje_hasilati_usd, out.proje_kari_usd, out.brut_karlilik_orani} :
            (x # None) <=> positive
       /\ \A x \in {out.proje_hasilati_try, out.proje_kari_try} :
            (x # None) <=> (positive /\ usd_try_rate # None)

\* a positive sale price and no exchange rate
C7_Witness ==
  /\ result.kind = "return"
  /\ inputs["satis_birim_fiyat_usd_m2"].v.s = 1
  /\ usd_try_rate = None
  /\ result.outputs.proje_kari_usd # None
  /\ result.outputs.proje_kari_try = None

\* C8 as stated: every TRY field is non-None iff an exchange rate was given,
\* and then it is its USD field x the rate; without a rate every TRY field is
\* in the record with the value None.
C8_MirroredIffRate ==
  result.kind = "return" =>
    LET out == result.outputs
        pairs == {<<out.insaat_maliyeti_usd, out.insaat_maliyeti_try>>,
                  <<out.arsa_degeri_usd, out.arsa_degeri_try>>,
                  <<out.toplam_proje_maliyeti_usd, out.toplam_proje_maliyeti_try>>,
                  <<out.breakeven_usd_m2, out.breakeven_try_m2>>,
                  <<out.target_10_usd_m2, out.target_10_try_m2>>,
                  <<out.target_30_usd_m2, out.target_30_try_m2>>,
                  <<out.target_50_usd_m2, out.target_50_try_m2>>,
                  <<out.satis_birim_fiyat_usd_m2, out.satis_birim_fiyat_try_m2>>,
                  <<out.proje_hasilati_usd, out.proje_hasilati_try>>,
                  <<out.proje_kari_usd, out.proje_kari_try>>}
    IN \A pr \in pairs :
         /\ (pr[2] # None) <=> (usd_try_rate # None)
         /\ pr[2] # None => pr[2] = Num(FMul(pr[1].v, usd_try_rate.v))

\* C8 amended: every TRY field is non-None iff an exchange rate was given and
\* its USD field is non-None, and then it is the USD field x the rate; without
\* a rate every TRY field is in the record with the value None.
C8_Mirrored ==
  result.kind = "return" =>
    LET out == result.outputs
        pairs == {<<out.insaat_maliyeti_usd, out.insaat_maliyeti_try>>,
                  <<out.arsa_degeri_usd, out.arsa_degeri_try>>,
                  <<out.toplam_proje_maliyeti_usd, out.toplam_proje_maliyeti_try>>,
                  <<out.breakeven_usd_m2, out.breakeven_try_m2>>,
                  <<out.target_10_usd_m2, out.target_10_try_m2>>,
                  <<out.target_30_usd_m2, out.target_30_try_m2>>,
                  <<out.target_50_usd_m2, out.target_50_try_m2>>,
                  <<out.satis_birim_fiyat_usd_m2, out.satis_birim_fiyat_try_m2>>,
                  <<out.proje_hasilati_usd, out.proje_hasilati_try>>,
                  <<out.proje_kari_usd, out.proje_kari_try>>}
    IN \A pr \in pairs :
         /\ (pr[2] # None) <=> (usd_try_rate # None /\ pr[1] # None)
         /\ pr[2] # None => pr[2] = Num(FMul(pr[1].v, usd_try_rate.v))

\* an exchange rate and no sale price: the cost fields are mirrored, the
\* revenue fields are not
C8_Witness ==
  /\ result.kind = "return"
  /\ usd_try_rate # None
  /\ result.outputs.toplam_proje_maliyeti_try # None
  /\ result.outputs.toplam_proje_maliyeti_try # result.outputs.toplam_proje_maliyeti_usd
  /\ result.outputs.proje_kari_usd = None
  /\ result.outputs.proje_kari_try = None

\* C9: yaklasik_konut_adedi = floor(satilabilir / ort_konut) when ort_konut > 0
\* and the quotient is positive, else 0; kalan_alan = satilabilir - adet x
\* ort_konut when adet > 0, else satilabilir; and 0 <= kalan_alan < ort_konut
\* whenever adet > 0.
C9_Units ==
  result.kind = "return" =>
    LET out == result.outputs
        satilabilir == out.satilabilir_alan_m2.v
        ort_konut == IF inputs["ortalama_konut_m2"] = Absent THEN FromInt(120)
                     ELSE inputs["ortalama_konut_m2"].v
        quotient == IF FGt(ort_konut, FZero) THEN FDiv(satilabilir, ort_konut) ELSE FZero
        adet == out.yaklasik_konut_adedi
        kalan == out.kalan_satilabilir_alan_m2.v
    IN /\ adet = IF FGt(quotient, FZero) THEN FFloor(quotient) ELSE 0
       /\ kalan = IF adet > 0 THEN FSub(satilabilir, FMul(FromInt(adet), ort_konut))
                  ELSE satilabilir
       /\ adet > 0 => FGe(kalan, FZero) /\ FLt(kalan, ort_konut)

\* C10: in revenue mode proje_hasilati = satilabilir x satis_fiyat, proje_kari =
\* proje_hasilati - toplam_maliyet and brut_karlilik_orani = proje_kari /
\* toplam_maliyet (over the cost, not the revenue), 0 when toplam_maliyet <= 0.
C10_Revenue ==
  (/\ result.kind = "return"
   /\ inputs["satis_birim_fiyat_usd_m2"].t = "float"
   /\ FGt(inputs["satis_birim_fiyat_usd_m2"].v, FZero)) =>
    LET out == result.outputs
        toplam == out.toplam_proje_maliyeti_usd.v
    IN /\ out.proje_hasilati_usd =
            Num(FMul(out.satilabilir_alan_m2.v, inputs["satis_birim_fiyat_usd_m2"].v))
       /\ out.proje_kari_usd = Num(FSub(out.proje_hasilati_usd.v, toplam))
       /\ out.brut_karlilik_orani =
            IF FGt(toplam, FZero) THEN Num(FDiv(out.proje_kari_usd.v, toplam))
            ELSE Num(FZero)

\* revenue mode with a profit on a positive cost
C10_Witness ==
  /\ result.kind = "return"
  /\ inputs["satis_birim_fiyat_usd_m2"].v.s = 1
  /\ result.outputs.toplam_proje_maliyeti_usd.v.s = 1
  /\ result.outputs.proje_kari_usd.v.s = 1
  /\ result.outputs.brut_karlilik_orani.v.s = 1

\* C11: degenerate values never raise.  With the required fields present, the
\* categories known and every numeric field a number, compute_outputs returns
\* the full output record; with satilabilir <= 0 the breakeven price and the
\* three target prices are 0, and in revenue mode with toplam_maliyet <= 0
\* brut_karlilik_orani is 0.
C11_DegenerateGuards ==
  LET numeric == \A k \in {"arsa_alani_m2", "emsal", "arsa_toplam_degeri_usd"} :
                   inputs[k].t = "float"
      optional == \A k \in {"satilabilir_katsayi", "otopark_katsayi",
                            "insaat_maliyet_usd_m2", "ortalama_konut_m2"} :
                    inputs[k].t \in {"absent", "float"}
      known == /\ inputs["otopark_tipi"] \in {Str("ACIK"), Str("KAPALI")}
               /\ inputs["konut_sinifi"] \in {Str("ALT"), Str("ORTA"), Str("YUKSEK")}
      fiyat == inputs["satis_birim_fiyat_usd_m2"]
  IN (result # NotCalled /\ numeric /\ optional /\ known) =>
       /\ result.kind = "return"
       /\ DOMAIN result.outputs = OutputKeys
       /\ FLe(result.outputs.satilabilir_alan_m2.v, FZero) =>
            \A k \in {"breakeven_usd_m2", "target_10_usd_m2", "target_30_usd_m2",
                      "target_50_usd_m2"} : result.outputs[k] = Num(FZero)
       /\ (/\ fiyat.t = "float" /\ FGt(fiyat.v, FZero)
           /\ FLe(result.outputs.toplam_proje_maliyeti_usd.v, FZero)) =>
            result.outputs.brut_karlilik_orani = Num(FZero)

\* a negative sellable area and, in revenue mode, a negative total cost
C11_Witness ==
  /\ result.kind = "return"
  /\ result.outputs.satilabilir_alan_m2.v.s = -1
  /\ result.outputs.toplam_proje_maliyeti_usd.v.s = -1
  /\ result.outputs.breakeven_usd_m2 = Num(FZero)
  /\ result.outputs.target_50_usd_m2 = Num(FZero)
  /\ result.outputs.proje_hasilati_usd # None
  /\ result.outputs.brut_karlilik_orani = Num(FZero)

(***************************************************************************)
(* C12                                                                     *)
(***************************************************************************)
\* the record of the direct call a cell stands for: the caller's record with
\* the sale price times the j-th sale multiplier and the construction cost
\* (the record's own if it gives one, else the default of its class) times
\* the i-th cost multiplier
C12_DirectRecord(inp, i, j) ==
  LET cost == IF inp["insaat_maliyet_usd_m2"].t = "float"
              THEN inp["insaat_maliyet_usd_m2"].v
              ELSE DEFAULTS.insaat_maliyet_usd_m2[inp["konut_sinifi"].s]
  IN [inp EXCEPT
        !["satis_birim_fiyat_usd_m2"] =
           Num(FMul(inp["satis_birim_fiyat_usd_m2"].v, sales_mults[j])),
        !["insaat_maliyet_usd_m2"] = Num(FMul(cost, cost_mults[i]))]

\* C12: when sensitivity returns for a record with a sale price, the cell
\* grid[i][j] holds proje_kari_usd, proje_kari_try and brut_karlilik_orani
\* of a direct compute_outputs call on the record with the sale price times
\* sales_mults[j] and the construction cost (explicit, else the class
\* default) times cost_mults[i]; when the sale price is absent, None or ""
\* the grid is empty and base is the output of compute_outputs on the record.
C12_GridEqualsDirectCalls ==
  \A c \in Callers :
    LET f == frame[c]
        inp == heap[InputsAddr(c)]
    IN (f.fn = "sensitivity" /\ f.pc = "done" /\ f.ret.kind = "return") =>
         /\ f.ret.base = compute_outputs(inp, f.usd_try_rate).outputs
         /\ IF inp["satis_birim_fiyat_usd_m2"].t \in {"absent", "NoneType"}
               \/ inp["satis_birim_fiyat_usd_m2"] = Str("")
            THEN f.ret.grid = <<>>
            ELSE /\ Len(f.ret.grid) = 3
                 /\ \A i \in 1..3 :
                      /\ Len(f.ret.grid[i]) = 3
                      /\ \A j \in 1..3 :
                           \E direct \in {compute_outputs(C12_DirectRecord(inp, i, j),
                                                          f.usd_try_rate)} :
                             /\ direct.kind = "return"
                             /\ f.ret.grid[i][j].profit_usd = direct.outputs.proje_kari_usd
                             /\ f.ret.grid[i][j].profit_try = direct.outputs.proje_kari_try
                             /\ f.ret.grid[i][j].gross_margin =
                                  direct.outputs.brut_karlilik_orani

\* a returned grid with profits in both currencies, for a record that leaves
\* the construction cost to its class
C12_Witness ==
  /\ frame[1].fn = "sensitivity" /\ frame[1].pc = "done"
  /\ frame[1].ret.kind = "return"
  /\ heap[InputsAddr(1)]["satis_birim_fiyat_usd_m2"].t = "float"
  /\ ~Has(heap[InputsAddr(1)], "insaat_maliyet_usd_m2")
  /\ Len(frame[1].ret.grid) = 3
  /\ frame[1].ret.grid[1][3].profit_usd.t = "float"
  /\ frame[1].ret.grid[1][3].profit_try.t = "float"
  /\ frame[1].ret.grid[1][3].profit_usd # frame[1].ret.grid[3][1].profit_usd

(***************************************************************************)
(* C13                                                                     *)
(***************************************************************************)
\* C13: a call of sensitivity on a record with a sale price calls
\* compute_outputs once for the base and then once per cell, cell (i, j)
\* being call number 1 + 3 * (i - 1) + j, so ten times when it returns; it
\* returns 3 rows of 3 cells, the cell (i, j) recording cost_mults[i] and
\* sales_mults[j], and both lists are 0.9, 1.0, 1.1, ascending.
C13_TenCallsThreeByThree ==
  \A c \in Callers :
    LET f == frame[c]
    IN f.fn = "sensitivity" =>
         /\ f.calls <= 10
         /\ f.pc = "base" => f.calls = 1
         /\ f.pc = "out" =>
              /\ f.calls = 1 + 3 * (f.i - 1) + f.j
              /\ Len(f.grid) = f.i - 1
              /\ Len(f.row) = f.j - 1
         /\ (/\ f.pc = "done"
             /\ f.ret.kind = "return"
             /\ ~IsBlank(Get(heap[InputsAddr(c)], "satis_birim_fiyat_usd_m2", None))) =>
              /\ f.calls = 10
              /\ f.ret.sales_mults = <<Dec(9, 10), FromInt(1), Dec(11, 10)>>
              /\ f.ret.cost_mults = <<Dec(9, 10), FromInt(1), Dec(11, 10)>>
              /\ \A i \in 1..2 : /\ FLt(f.ret.sales_mults[i], f.ret.sales_mults[i + 1])
                                 /\ FLt(f.ret.cost_mults[i], f.ret.cost_mults[i + 1])
              /\ Len(f.ret.grid) = 3
              /\ \A i \in 1..3 :
                   /\ Len(f.ret.grid[i]) = 3
                   /\ \A j \in 1..3 :
                        /\ f.ret.grid[i][j].cost_mult = f.ret.cost_mults[i]
                        /\ f.ret.grid[i][j].sales_mult = f.ret.sales_mults[j]

\* sensitivity has returned a grid after ten calls, for a record whose sale
\* price is a positive number
C13_Witness ==
  /\ frame[1].fn = "sensitivity" /\ frame[1].pc = "done"
  /\ frame[1].ret.kind = "return"
  /\ frame[1].calls = 10
  /\ Len(frame[1].ret.grid) = 3
  /\ frame[1].ret.grid[3][1].cost_mult = Dec(11, 10)
  /\ frame[1].ret.grid[3][1].sales_mult = Dec(9, 10)
  /\ FGt(heap[InputsAddr(1)]["satis_birim_fiyat_usd_m2"].v, FZero)

(***************************************************************************)
(* C14                                                                     *)
(***************************************************************************)
\* C14: the value sensitivity returns carries the warnings of its base call:
\* besides base (the output record), grid (cells of multipliers, profits and
\* margin) and the two multiplier lists it has an entry that holds the list
\* of warnings compute_outputs gives for the caller's record.
C14_BaseWarningsSurfaced ==
  \A c \in Callers :
    LET f == frame[c]
    IN (f.fn = "sensitivity" /\ f.pc = "done" /\ f.ret.kind = "return") =>
         \E k \in DOMAIN f.ret \ {"kind", "base", "grid", "sales_mults", "cost_mults"} :
           f.ret[k] = compute_outputs(heap[InputsAddr(c)], f.usd_try_rate).warnings

(***************************************************************************)
(* C15                                                                     *)
(***************************************************************************)
\* the number a call works with for the field k: the record's own, else d
C15_Value(k, d) == IF inputs[k].t = "float" THEN inputs[k].v ELSE d

\* C15: whenever compute_outputs returns, each of the ten sanity and
\* plausibility warnings is in the list exactly when its own predicate holds
\* of the value the call works with (the record's, else the default): emsal
\* <= 0, arsa <= 0, satilabilir_katsayi <= 0, otopark_katsayi <= 0,
\* insaat_maliyet_birim <= 0, arsa_degeri < 0, emsal > 5, satilabilir_katsayi
\* outside [1.0, 1.6], ort_konut outside [60, 250], no exchange rate; no
\* warning is listed twice, and the outputs hold all their fields.
C15_WarningIffPredicate ==
  (result # NotCalled /\ result.kind = "return") =>
    LET W == {result.warnings[n] : n \in 1..Len(result.warnings)}
        emsal == C15_Value("emsal", FZero)
        arsa == C15_Value("arsa_alani_m2", FZero)
        kat == C15_Value("satilabilir_katsayi", Dec(125, 100))
        oto == C15_Value("otopark_katsayi",
                         IF inputs["otopark_tipi"] = Str("ACIK") THEN Dec(120, 100)
                         ELSE Dec(160, 100))
        birim == C15_Value("insaat_maliyet_usd_m2",
                           CASE inputs["konut_sinifi"] = Str("ALT") -> FromInt(700)
                             [] inputs["konut_sinifi"] = Str("ORTA") -> FromInt(900)
                             [] OTHER -> FromInt(1100))
        deger == C15_Value("arsa_toplam_degeri_usd", FZero)
        ort == C15_Value("ortalama_konut_m2", FromInt(120))
    IN /\ WEmsal \in W <=> FLe(emsal, FZero)
       /\ WArsa \in W <=> FLe(arsa, FZero)
       /\ WSatKat \in W <=> FLe(kat, FZero)
       /\ WOtoKat \in W <=> FLe(oto, FZero)
       /\ WMaliyet \in W <=> FLe(birim, FZero)
       /\ WArsaDegeri \in W <=> FLt(deger, FZero)
       /\ WEmsalYuksek \in W <=> FGt(emsal, FromInt(5))
       /\ WSatKatAralik \in W <=> ~(FGe(kat, FromInt(1)) /\ FLe(kat, Dec(16, 10)))
       /\ WOrtKonut \in W <=> ~(FGe(ort, FromInt(60)) /\ FLe(ort, FromInt(250)))
       /\ WKur \in W <=> usd_try_rate = None
       /\ Cardinality(W) = Len(result.warnings)
       /\ DOMAIN result.outputs = OutputKeys

\* four or more warnings in one call, among them two sanity warnings and the
\* one of the missing rate, while the land area warning between them is not
\* there
C15_Witness ==
  /\ result # NotCalled /\ result.kind = "return"
  /\ Len(result.warnings) >= 4
  /\ \E n \in 1..Len(result.warnings) : result.warnings[n] = WEmsal
  /\ \E n \in 1..Len(result.warnings) : result.warnings[n] = WMaliyet
  /\ \E n \in 1..Len(result.warnings) : result.warnings[n] = WKur
  /\ \A n \in 1..Len(result.warnings) : result.warnings[n] # WArsa

(***************************************************************************)
(* C16                                                                     *)
(***************************************************************************)
\* C16: whenever compute_outputs returns, a profitability warning is in the
\* list only in revenue mode (a sale price above 0), and then at most one
\* and at most once: WZarar iff brut_karlilik_orani < 0, WDusuk iff it is in
\* [0, 0.10), WOrta iff it is in [0.10, 0.20), none iff it is >= 0.20; the
\* three messages differ from each other.
C16_ProfitabilityBands ==
  (result # NotCalled /\ result.kind = "return") =>
    LET ws == result.warnings
        P == {n \in 1..Len(ws) : ws[n] \in {WZarar, WDusuk, WOrta}}
        W == {ws[n] : n \in P}
        fiyat == inputs["satis_birim_fiyat_usd_m2"]
        gm == result.outputs.brut_karlilik_orani
    IN /\ Cardinality({WZarar, WDusuk, WOrta}) = 3
       /\ Cardinality(P) <= 1
       /\ IF fiyat.t = "float" /\ FGt(fiyat.v, FZero)
          THEN /\ gm.t = "float"
               /\ WZarar \in W <=> FLt(gm.v, FZero)
               /\ WDusuk \in W <=> (FGe(gm.v, FZero) /\ FLt(gm.v, Dec(10, 100)))
               /\ WOrta \in W <=> (FGe(gm.v, Dec(10, 100)) /\ FLt(gm.v, Dec(20, 100)))
               /\ W = {} <=> FGe(gm.v, Dec(20, 100))
          ELSE W = {}

\* a gross margin between 0.10 and 0.20, reported as moderate after another
\* warning
C16_Witness ==
  /\ result # NotCalled /\ result.kind = "return"
  /\ result.outputs.brut_karlilik_orani.t = "float"
  /\ FGt(result.outputs.brut_karlilik_orani.v, Dec(10, 100))
  /\ FLt(result.outputs.brut_karlilik_orani.v, Dec(20, 100))
  /\ Len(result.warnings) = 2
  /\ result.warnings[2] = WOrta

(***************************************************************************)
(* C17                                                                     *)
(***************************************************************************)
\* the place of a warning in the order in which the specification lists the
\* predicates; the three profitability messages share the last place
C17_Rank(w) ==
  CASE w = WEmsal -> 1
    [] w = WArsa -> 2
    [] w = WSatKat -> 3
    [] w = WOtoKat -> 4
    [] w = WMaliyet -> 5
    [] w = WArsaDegeri -> 6
    [] w = WEmsalYuksek -> 7
    [] w = WSatKatAralik -> 8
    [] w = WOrtKonut -> 9
    [] w = WKur -> 10
    [] OTHER -> 11

\* C17: the warnings of a call appear in the order in which the
\* specification lists their predicates: emsal, arsa, satilabilir_katsayi,
\* otopark_katsayi, insaat_maliyet_birim, arsa_degeri, then emsal > 5, the
\* satilabilir_katsayi range, the ort_konut range, the missing rate, and the
\* profitability warning last.
C17_SpecOrder ==
  (result # NotCalled /\ result.kind = "return") =>
    \A m, n \in 1..Len(result.warnings) :
      m < n => C17_Rank(result.warnings[m]) < C17_Rank(result.warnings[n])

(***************************************************************************)
(* C18                                                                     *)
(***************************************************************************)
\* the mirrored-currency fields of the outputs
C18_TryKeys ==
  {"insaat_maliyeti_try", "arsa_degeri_try", "toplam_proje_maliyeti_try",
   "breakeven_try_m2", "target_10_try_m2", "target_30_try_m2", "target_50_try_m2",
   "satis_birim_fiyat_try_m2", "proje_hasilati_try", "proje_kari_try"}

\* the outputs out of a call without a rate against those of the same call
\* with a rate: every TRY field None, every other field the same
C18_SameInUsd(out, with) ==
  /\ \A k \in C18_TryKeys : out[k] = None
  /\ \A k \in OutputKeys \ C18_TryKeys : out[k] = with[k]

\* how many times the warning of the missing rate is in the list ws
C18_Count(ws) == Cardinality({n \in 1..Len(ws) : ws[n] = WKur})

\* C18: a call of compute_outputs or sensitivity without an exchange rate,
\* on a record the same call accepts with the rate 34.27, returns; every TRY
\* field of what it returns (outputs, base, the cells' profit_try) is None,
\* every other field is what the call with the rate gives, and the value
\* handed to the caller carries the warning of the missing rate exactly
\* once.
C18_AbsentRate ==
  \A c \in Callers :
    LET f == frame[c]
        inp == heap[InputsAddr(c)]
        rate == Num(Dec(3427, 100))
    IN (f.pc = "done" /\ f.usd_try_rate = None) =>
         IF f.fn = "compute_outputs"
         THEN \E with \in {compute_outputs(inp, rate)} :
                with.kind = "return" =>
                  /\ f.ret.kind = "return"
                  /\ C18_SameInUsd(f.ret.outputs, with.outputs)
                  /\ C18_Count(f.ret.warnings) = 1
         ELSE \E with \in {sensitivity(inp, rate)} :
                with.kind = "return" =>
                  /\ f.ret.kind = "return"
                  /\ C18_SameInUsd(f.ret.base, with.base)
                  /\ Len(f.ret.grid) = Len(with.grid)
                  /\ \A i \in 1..Len(f.ret.grid), j \in 1..3 :
                       /\ f.ret.grid[i][j].profit_try = None
                       /\ f.ret.grid[i][j].profit_usd = with.grid[i][j].profit_usd
                       /\ f.ret.grid[i][j].gross_margin = with.grid[i][j].gross_margin
                  /\ "warnings" \in DOMAIN f.ret
                  /\ C18_Count(f.ret.warnings) = 1

(***************************************************************************)
(* C19                                                                     *)
(***************************************************************************)
\* C19: however the steps of the callers interleave, a call that has ended
\* has the result the same call gives when nothing else runs, so has every
\* compute_outputs call sensitivity has made on the way, and the dicts a
\* call passes to compute_outputs and allocates are its caller's own.
C19_Independent ==
  \A c \in Callers :
    LET f == frame[c]
        inp == heap[InputsAddr(c)]
        own == {a \in Addrs : a[1] = c}
    IN /\ {f.inputs, f.arg, f.base, f.tmp} \subseteq own \cup {NoAddr}
       /\ f.pc = "base" => f.out = compute_outputs(inp, f.usd_try_rate)
       /\ f.pc = "out" =>
            f.out = compute_outputs(
                      GridInputs(inp, inp, cost_mults[f.i], sales_mults[f.j]),
                      f.usd_try_rate)
       /\ f.pc = "done" =>
            f.ret = IF f.fn = "compute_outputs"
                    THEN compute_outputs(heap[InputsAddr(c)], f.usd_try_rate)
                    ELSE sensitivity(heap[InputsAddr(c)], f.usd_try_rate)

\* caller 1 has its grid for one record while caller 2, on another record and
\* without a rate, is in the middle of its own grid
C19_Witness ==
  /\ frame[1].fn = "sensitivity" /\ frame[1].pc = "done"
  /\ frame[1].ret.kind = "return" /\ Len(frame[1].ret.grid) = 3
  /\ frame[2].fn = "sensitivity" /\ frame[2].pc = "compute"
  /\ frame[2].i = 2 /\ frame[2].j = 2
  /\ frame[1].usd_try_rate # frame[2].usd_try_rate
  /\ heap[InputsAddr(1)] # heap[InputsAddr(2)]
  /\ heap[TmpAddr(1)] # heap[TmpAddr(2)]

(***************************************************************************)
(* C20                                                                     *)
(***************************************************************************)
\* C20: no step of compute_outputs or sensitivity, returning or raising,
\* changes the dict the caller passed: it keeps its keys and their values,
\* and the sale price and construction cost multiplied for a cell are
\* written to tmp only.  (DEFAULTS is a definition: nothing assigns it.)
C20_InputsUntouched ==
  [][\A c \in Callers : heap'[InputsAddr(c)] = heap[InputsAddr(c)]]_vars

\* sensitivity has returned its grid: the last tmp holds the sale price times
\* 1.1 and a construction cost, the caller's dict still its own sale price
\* and no construction cost
C20_Witness ==
  /\ frame[1].fn = "sensitivity" /\ frame[1].pc = "done"
  /\ frame[1].ret.kind = "return" /\ Len(frame[1].ret.grid) = 3
  /\ heap[InputsAddr(1)]["satis_birim_fiyat_usd_m2"].t = "float"
  /\ FGt(heap[InputsAddr(1)]["satis_birim_fiyat_usd_m2"].v, FZero)
  /\ heap[TmpAddr(1)]["satis_birim_fiyat_usd_m2"] =
       Num(FMul(heap[InputsAddr(1)]["satis_birim_fiyat_usd_m2"].v, Dec(11, 10)))
  /\ ~Has(heap[InputsAddr(1)], "insaat_maliyet_usd_m2")
  /\ heap[TmpAddr(1)]["insaat_maliyet_usd_m2"].t = "float"

(***************************************************************************)
(* C21                                                                     *)
(***************************************************************************)
\* C21: for the record of the worked example (arsa 5000, emsal 1.8, ACIK,
\* ORTA, land value 2,500,000, ort_konut 100, the rest left to the defaults)
\* compute_outputs gives emsal_insaat 9000, satilabilir 11250, insaat_alani
\* 13500, insaat_maliyeti 12,150,000, toplam_maliyet 14,650,000, 112 units
\* and 50 m2 left over; with the sale price 1800 added it gives the revenue
\* 20,250,000, the profit 5,600,000, the gross margin 5,600,000 / 14,650,000
\* and no profitability warning.
C21_WorkedExample ==
  (/\ result # NotCalled
   /\ \A k \in Keys \ {"satis_birim_fiyat_usd_m2"} : inputs[k] = KucukProje[k]
   /\ inputs["satis_birim_fiyat_usd_m2"] \in {Absent, Num(FromInt(1800))}) =>
    /\ result.kind = "return"
    /\ result.outputs.emsal_insaat_alani_m2 = Num(FromInt(9000))
    /\ result.outputs.satilabilir_alan_m2 = Num(FromInt(11250))
    /\ result.outputs.toplam_insaat_alani_m2 = Num(FromInt(13500))
    /\ result.outputs.insaat_maliyeti_usd = Num(FromInt(12150000))
    /\ result.outputs.toplam_proje_maliyeti_usd = Num(FromInt(14650000))
    /\ result.outputs.yaklasik_konut_adedi = 112
    /\ result.outputs.kalan_satilabilir_alan_m2 = Num(FromInt(50))
    /\ inputs["satis_birim_fiyat_usd_m2"] = Num(FromInt(1800)) =>
         /\ result.outputs.proje_hasilati_usd = Num(FromInt(20250000))
         /\ result.outputs.proje_kari_usd = Num(FromInt(5600000))
         /\ result.outputs.brut_karlilik_orani =
              Num(FDiv(FromInt(5600000), FromInt(14650000)))
         /\ \A n \in 1..Len(result.warnings) :
              result.warnings[n] \notin {WZarar, WDusuk, WOrta}

\* the worked example with the sale price 1800 has been computed
C21_Witness ==
  /\ result # NotCalled /\ result.kind = "return"
  /\ inputs = [KucukProje EXCEPT !["satis_birim_fiyat_usd_m2"] = Num(FromInt(1800))]
  /\ result.outputs.yaklasik_konut_adedi = 112
  /\ result.outputs.proje_kari_usd = Num(FromInt(5600000))

(***************************************************************************)
(* C27                                                                     *)
(***************************************************************************)
\* C27: whenever the outputs echo a sale price that is neither None nor 0,
\* which is when the renderers show the revenue section, proje_hasilati_usd,
\* proje_kari_usd and brut_karlilik_orani are not None.
C27_RevenueSectionFields ==
  (/\ result # NotCalled /\ result.kind = "return"
   /\ result.outputs.satis_birim_fiyat_usd_m2 # None
   /\ result.outputs.satis_birim_fiyat_usd_m2 # Num(FZero)) =>
    /\ result.outputs.proje_hasilati_usd # None
    /\ result.outputs.proje_kari_usd # None
    /\ result.outputs.brut_karlilik_orani # None

(***************************************************************************)
(* C28                                                                     *)
(***************************************************************************)
\* C28: whenever sensitivity returns a grid that is not empty, each of its
\* nine cells has a profit_usd and a gross_margin that are not None.
C28_CellsNotNone ==
  \A c \in Callers :
    LET f == frame[c]
    IN (/\ f.fn = "sensitivity" /\ f.pc = "done" /\ f.ret.kind = "return"
        /\ f.ret.grid # <<>>) =>
         \A i \in 1..Len(f.ret.grid) : \A j \in 1..Len(f.ret.grid[i]) :
           /\ f.ret.grid[i][j].profit_usd # None
           /\ f.ret.grid[i][j].gross_margin # None

(***************************************************************************)
(* C29                                                                     *)
(***************************************************************************)
\* C29: whenever sensitivity returns a grid that is not empty, the cell in
\* the middle, grid[2][2], records the multipliers 1.0 and 1.0 and holds the
\* proje_kari_usd, proje_kari_try and brut_karlilik_orani of base, whether
\* the record gives insaat_maliyet_usd_m2 or leaves it to its class.
C29_CentreIsBase ==
  \A c \in Callers :
    LET f == frame[c]
    IN (/\ f.fn = "sensitivity" /\ f.pc = "done" /\ f.ret.kind = "return"
        /\ f.ret.grid # <<>>) =>
         /\ f.ret.grid[2][2].cost_mult = FromInt(1)
         /\ f.ret.grid[2][2].sales_mult = FromInt(1)
         /\ f.ret.grid[2][2].profit_usd = f.ret.base.proje_kari_usd
         /\ f.ret.grid[2][2].profit_try = f.ret.base.proje_kari_try
         /\ f.ret.grid[2][2].gross_margin = f.ret.base.brut_karlilik_orani

\* a grid whose middle cell holds a profit in both currencies, for a record
\* with a construction cost of its own that is not the default of its class
C29_Witness ==
  /\ frame[1].fn = "sensitivity" /\ frame[1].pc = "done"
  /\ frame[1].ret.kind = "return" /\ Len(frame[1].ret.grid) = 3
  /\ heap[InputsAddr(1)]["insaat_maliyet_usd_m2"] = Num(FromInt(800))
  /\ frame[1].ret.grid[2][2].profit_usd.t = "float"
  /\ frame[1].ret.grid[2][2].profit_try.t = "float"
  /\ frame[1].ret.grid[2][2].profit_usd # frame[1].ret.grid[2][3].profit_usd
  /\ frame[1].ret.grid[2][2].profit_usd # frame[1].ret.grid[1][2].profit_usd

(***************************************************************************)
(* C22                                                                     *)
(***************************************************************************)
\* C22: after every call of ensure_defaults (Yeni Hesaplama, Yukle, a chat
\* patch through merge_patch, HESAPLA) the dict passed is as it was; every
\* key the dict passed holds has the same value in the dict returned;
\* satilabilir_katsayi and ortalama_konut_m2, when their key is not in the
\* dict passed, are 1.25 and 120; otopark_katsayi and insaat_maliyet_usd_m2,
\* when their key is not in the dict passed, are the table value of
\* otopark_tipi and konut_sinifi if that is one of the table's names and
\* stay out of the dict otherwise; no other key is added.
C22_EnsureDefaults ==
  LET c == event.call
      parking == [ACIK |-> Dec(120, 100), KAPALI |-> Dec(160, 100)]
      cost == [ALT |-> FromInt(700), ORTA |-> FromInt(900), YUKSEK |-> FromInt(1100)]
      filled(k) ==
        CASE k = "satilabilir_katsayi" -> Num(Dec(125, 100))
          [] k = "ortalama_konut_m2" -> Num(FromInt(120))
          [] k = "otopark_katsayi" ->
               IF c.arg["otopark_tipi"].t = "str" /\ c.arg["otopark_tipi"].s \in DOMAIN parking
               THEN Num(parking[c.arg["otopark_tipi"].s]) ELSE Absent
          [] k = "insaat_maliyet_usd_m2" ->
               IF c.arg["konut_sinifi"].t = "str" /\ c.arg["konut_sinifi"].s \in DOMAIN cost
               THEN Num(cost[c.arg["konut_sinifi"].s]) ELSE Absent
          [] OTHER -> Absent
  IN c # NoCall =>
       /\ c.inputs = c.arg
       /\ \A k \in Keys : c.out[k] = IF Has(c.arg, k) THEN c.arg[k] ELSE filled(k)

\* a chat patch gave a class and a parking type to a record that had no cost
\* and no parking coefficient, and both were filled from the tables while
\* the sellable coefficient the record held was kept
C22_Witness ==
  /\ event.call # NoCall
  /\ ~Has(event.call.arg, "insaat_maliyet_usd_m2")
  /\ ~Has(event.call.arg, "otopark_katsayi")
  /\ Has(event.call.arg, "satilabilir_katsayi")
  /\ event.call.out["insaat_maliyet_usd_m2"] = Num(FromInt(900))
  /\ event.call.out["otopark_katsayi"] = Num(Dec(120, 100))

\* an empty dict was passed: the two numeric defaults were filled, and no
\* cost and no parking coefficient, for want of a class and a parking type
C22_WitnessEmpty ==
  /\ event.call # NoCall
  /\ event.call.arg = EmptyDict
  /\ event.call.out["satilabilir_katsayi"] = Num(Dec(125, 100))
  /\ ~Has(event.call.out, "insaat_maliyet_usd_m2")

(***************************************************************************)
(* C23                                                                     *)
(***************************************************************************)
\* C23: in every step of the page script, the count of a user rises only
\* when the step is the HESAPLA handler of that user, and then by one: the
\* sidebar, the chat, Yeni Hesaplama, Yukle and the results tab leave every
\* count as it is or, on a new day, at zero.
C23_OnlyHesaplaCounts ==
  [][\A u \in Users :
       store'.counts[u] > store.counts[u] =>
         /\ session[u].pc = "hesapla"
         /\ event'.at = "hesapla" /\ event'.key = u /\ event'.ret[1]
         /\ store'.counts[u] = store.counts[u] + 1]_vars

(***************************************************************************)
(* C24                                                                     *)
(***************************************************************************)
\* C24: for a limit below 1000, every call of check_and_increment_quota, by
\* whichever key and from whichever place of the script, starts from the
\* counts of the store, or from zero for every key when the day of the store
\* is not today; a call that succeeds raises the count of its key by one and
\* returns (True, limit - new count, limit); a call that is denied returns
\* (False, 0, limit) and leaves the count of its key; the count of every
\* other key is left; and after the call no count is above the limit, so
\* that no more than limit calls of a key succeed in a day.
C24_QuotaCalls ==
  [][(event'.at # "none" /\ limit < 1000) =>
       LET key == event'.key
           ret == event'.ret
           before == [k \in Users |-> IF store.day # today THEN 0 ELSE store.counts[k]]
       IN /\ store'.day = today
          /\ \A k \in Users : store'.counts[k] <= limit
          /\ \A k \in Users \ {key} : store'.counts[k] = before[k]
          /\ ret[1] =>
               /\ store'.counts[key] = before[key] + 1
               /\ ret = <<TRUE, limit - store'.counts[key], limit>>
          /\ ~ret[1] =>
               /\ store'.counts[key] = before[key]
               /\ ret = <<FALSE, 0, limit>>]_vars

\* a call was denied to a key that has used up a limit of MaxLimit, on a day
\* on which the other key has calls left
C24_Witness ==
  /\ limit = MaxLimit
  /\ event.at # "none" /\ ~event.ret[1]
  /\ store.counts[event.key] = limit
  /\ \E k \in Users \ {event.key} : store.counts[k] < limit

\* on the last day a call succeeded as the first of its key that day
C24_WitnessNewDay ==
  /\ limit = MaxLimit
  /\ event.at # "none" /\ event.ret = <<TRUE, limit - 1, limit>>
  /\ store.day = MaxDays /\ store.counts[event.key] = 1

(***************************************************************************)
(* C25                                                                     *)
(***************************************************************************)
\* C25: a step of the HESAPLA handler in which check_and_increment_quota
\* returns success = False leaves st.session_state.inputs of the user as it
\* was, and with it what compute_if_possible gives for the results tab.
C25_DeniedPressKeepsInputs ==
  [][\A u \in Users :
       (/\ session[u].pc = "hesapla"
        /\ event'.at = "hesapla" /\ event'.key = u /\ ~event'.ret[1]) =>
         /\ session'[u].inputs = session[u].inputs
         /\ compute_if_possible(session'[u].inputs, usd_try_rate)
              = compute_if_possible(session[u].inputs, usd_try_rate)]_vars

(***************************************************************************)
(* C26                                                                     *)
(***************************************************************************)
\* C26: whenever the record of a session has come from ensure_defaults({})
\* by chat patches only and holds the five required fields, the
\* insaat_maliyet_birim that compute_outputs reads from it is the table
\* value of its konut_sinifi unless a patch gave insaat_maliyet_usd_m2, and
\* the otopark_katsayi that compute_outputs reads from it is the table value
\* of its otopark_tipi unless a patch gave otopark_katsayi.
C26_DefaultsFollowCategory ==
  \A u \in Users :
    LET s == session[u]
    IN (/\ s.fresh
        /\ \A n \in 1..Len(required) : Has(s.inputs, required[n])) =>
         /\ "insaat_maliyet_usd_m2" \notin s.carried =>
              Parse(s.inputs).insaat_maliyet_birim
                = [ALT |-> FromInt(700), ORTA |-> FromInt(900),
                   YUKSEK |-> FromInt(1100)][s.inputs["konut_sinifi"].s]
         /\ "otopark_katsayi" \notin s.carried =>
              Parse(s.inputs).otopark_katsayi
                = [ACIK |-> Dec(120, 100),
                   KAPALI |-> Dec(160, 100)][s.inputs["otopark_tipi"].s]

(***************************************************************************)
(* C30                                                                     *)
(***************************************************************************)
\* compute_outputs once more on the record of the call, with the sale price
\* set to a price of its outputs
C30_Rerun(price) ==
  compute_outputs([inputs EXCEPT !["satis_birim_fiyat_usd_m2"] = price], usd_try_rate)

\* the profitability warnings among the warnings of an outcome
C30_Flags(r) == {r.warnings[n] : n \in 1..Len(r.warnings)} \cap {WZarar, WDusuk, WOrta}

\* the case of the claim: the call returned a satilabilir_alan_m2 and a
\* toplam_proje_maliyeti_usd above zero
C30_Case ==
  /\ result # NotCalled /\ result.kind = "return"
  /\ FGt(result.outputs.satilabilir_alan_m2.v, FZero)
  /\ FGt(result.outputs.toplam_proje_maliyeti_usd.v, FZero)

\* C30 as the claim states it: at the breakeven price the profit and the
\* gross margin are 0 and the warning is the one of a margin below 10%; at
\* the target price of 10% the gross margin is 0.10 and the warning is the
\* one of a margin of 10%-20%; at the target prices of 30% and 50% the gross
\* margin is 0.30 and 0.50 and there is no profitability warning.
C30_RoundTripExact ==
  C30_Case =>
    LET out == result.outputs
        be == C30_Rerun(out.breakeven_usd_m2)
        t10 == C30_Rerun(out.target_10_usd_m2)
        t30 == C30_Rerun(out.target_30_usd_m2)
        t50 == C30_Rerun(out.target_50_usd_m2)
    IN /\ be.kind = "return"
       /\ be.outputs.proje_kari_usd = Num(FZero)
       /\ be.outputs.brut_karlilik_orani = Num(FZero)
       /\ C30_Flags(be) = {WDusuk}
       /\ t10.kind = "return"
       /\ t10.outputs.brut_karlilik_orani = Num(Dec(10, 100))
       /\ C30_Flags(t10) = {WOrta}
       /\ t30.kind = "return"
       /\ t30.outputs.brut_karlilik_orani = Num(Dec(30, 100))
       /\ C30_Flags(t30) = {}
       /\ t50.kind = "return"
       /\ t50.outputs.brut_karlilik_orani = Num(Dec(50, 100))
       /\ C30_Flags(t50) = {}

\* C30 within floating-point tolerance: at the breakeven price the revenue
\* is close to the total cost and the gross margin is within RelTol of 0, so
\* that the warning is the one of a loss or the one of a margin below 10%;
\* at the target price of 10% the gross margin is close to 0.10 and the
\* warning is the one of a margin below 10% or the one of 10%-20%; at the
\* target prices of 30% and 50% the gross margin is close to 0.30 and 0.50
\* and there is no profitability warning.
C30_RoundTripClose ==
  C30_Case =>
    LET out == result.outputs
        be == C30_Rerun(out.breakeven_usd_m2)
        t10 == C30_Rerun(out.target_10_usd_m2)
        t30 == C30_Rerun(out.target_30_usd_m2)
        t50 == C30_Rerun(out.target_50_usd_m2)
    IN /\ be.kind = "return"
       /\ IsClose(be.outputs.proje_hasilati_usd.v, out.toplam_proje_maliyeti_usd.v)
       /\ be.outputs.proje_kari_usd.t = "float"
       /\ FLe(FAbs(be.outputs.brut_karlilik_orani.v), RelTol)
       /\ C30_Flags(be) = IF FLt(be.outputs.brut_karlilik_orani.v, FZero)
                          THEN {WZarar} ELSE {WDusuk}
       /\ t10.kind = "return"
       /\ IsClose(t10.outputs.brut_karlilik_orani.v, Dec(10, 100))
       /\ C30_Flags(t10) = IF FLt(t10.outputs.brut_karlilik_orani.v, Dec(10, 100))
                           THEN {WDusuk} ELSE {WOrta}
       /\ t30.kind = "return"
       /\ IsClose(t30.outputs.brut_karlilik_orani.v, Dec(30, 100))
       /\ C30_Flags(t30) = {}
       /\ t50.kind = "return"
       /\ IsClose(t50.outputs.brut_karlilik_orani.v, Dec(50, 100))
       /\ C30_Flags(t50) = {}

\* a call whose breakeven price, put back as the sale price, gives a revenue
\* below the total cost, a gross margin below zero and the warning of a loss
C30_Witness ==
  /\ C30_Case
  /\ LET be == C30_Rerun(result.outputs.breakeven_usd_m2)
     IN /\ be.kind = "return"
        /\ FLt(be.outputs.proje_kari_usd.v, FZero)
        /\ FLt(be.outputs.brut_karlilik_orani.v, FZero)
        /\ C30_Flags(be) = {WZarar}

\* a call whose target price of 10%, put back as the sale price, gives a
\* gross margin just below 0.10 and the warning of a margin below 10%
C30_WitnessThin ==
  /\ C30_Case
  /\ LET t10 == C30_Rerun(result.outputs.target_10_usd_m2)
     IN /\ t10.kind = "return"
        /\ FLt(t10.outputs.brut_karlilik_orani.v, Dec(10, 100))
        /\ C30_Flags(t10) = {WDusuk}

\* a call for which the round trip is exact at the breakeven price
C30_WitnessExact ==
  /\ C30_Case
  /\ LET be == C30_Rerun(result.outputs.breakeven_usd_m2)
     IN /\ be.kind = "return"
        /\ be.outputs.proje_kari_usd = Num(FZero)
        /\ C30_Flags(be) = {WDusuk}

=============================================================================
